---- MODULE Spec2Model ----
(***************************************************************************)
(* Discourse-graph MCP server: the loader (dataLoader.ts), the two search  *)
(* implementations (keyword search.ts and the BM25 variant) and the graph  *)
(* traversal handlers of tools.ts, as a state machine.                     *)
(*                                                                         *)
(* Strings are sequences of one-character strings, so that prefix          *)
(* stripping, lower-casing, tokenizing and substring tests are computed.   *)
(* A JS Map is a sequence of [k, v] entries in insertion order.            *)
(***************************************************************************)
EXTENDS Integers, Sequences, FiniteSets, TLC

VARIABLES
    file,        \* the parsed JSON-LD document's "@graph" entry list
    pc,          \* "main" before loadData; then "idle" between tool calls and
                 \* "replying" when a handler has returned and its result is sent
    dataStore,   \* index.ts: let dataStore: DataStore
    bm25Index,   \* BM25 search: let bm25Index: BM25Index | null
    builds,      \* how many times buildBM25Index has run for the cache
    bfs,         \* visited, queue and nodesByHop of a get_node_neighborhood
                 \* call whose while loop is running
    request,     \* the tool call last handled
    response     \* what its handler returned (or that it threw)

vars == <<file, pc, dataStore, bm25Index, builds, bfs, request, response>>

(***************************************************************************)
(* JS values that are not strings                                          *)
(***************************************************************************)
\* a string is a sequence of single characters, so these are no strings
Undefined == <<"undefined">>
Null == <<"null">>

\* JS truthiness of an optional string argument: undefined and "" are falsy
Truthy(s) == s # Undefined /\ s # Null /\ s # <<>>

(***************************************************************************)
(* Characters and strings                                                  *)
(***************************************************************************)
UpperSeq == <<"A","B","C","D","E","F","G","H","I","J","K","L","M",
              "N","O","P","Q","R","S","T","U","V","W","X","Y","Z">>
LowerSeq == <<"a","b","c","d","e","f","g","h","i","j","k","l","m",
              "n","o","p","q","r","s","t","u","v","w","x","y","z">>
Digits == {"0","1","2","3","4","5","6","7","8","9"}

IsUpper(c) == \E i \in DOMAIN UpperSeq : UpperSeq[i] = c
IsLower(c) == \E i \in DOMAIN LowerSeq : LowerSeq[i] = c
\* regex \w and \s
IsWordChar(c) == IsUpper(c) \/ IsLower(c) \/ c \in Digits \/ c = "_"
IsSpace(c) == c \in {" ", "\n", "\t"}

toLowerChar(c) ==
    IF IsUpper(c) THEN LowerSeq[CHOOSE i \in DOMAIN UpperSeq : UpperSeq[i] = c]
    ELSE c

toLowerCase(s) == [i \in 1..Len(s) |-> toLowerChar(s[i])]

startsWith(s, p) == Len(s) >= Len(p) /\ SubSeq(s, 1, Len(p)) = p

\* String.prototype.includes
includes(s, sub) ==
    \E i \in 1..(Len(s) - Len(sub) + 1) : SubSeq(s, i, i + Len(sub) - 1) = sub

\* Array.prototype.includes
arrayIncludes(arr, x) == \E i \in 1..Len(arr) : arr[i] = x

RECURSIVE dropSpaces(_)
dropSpaces(s) ==
    IF s # <<>> /\ IsSpace(Head(s)) THEN dropSpaces(Tail(s)) ELSE s

RECURSIVE dropTrailingSpaces(_)
dropTrailingSpaces(s) ==
    IF s # <<>> /\ IsSpace(s[Len(s)])
    THEN dropTrailingSpaces(SubSeq(s, 1, Len(s) - 1))
    ELSE s

trim(s) == dropTrailingSpaces(dropSpaces(s))

\* printable ASCII in code-unit order, from the space (32); the double quote,
\* the backslash and the backquote are left out (their places are kept)
AsciiSeq == <<" ","!","dquote","#","$","%","&","'","(",")","*","+",",","-",".","/",
              "0","1","2","3","4","5","6","7","8","9",":",";","<","=",">","?","@",
              "A","B","C","D","E","F","G","H","I","J","K","L","M",
              "N","O","P","Q","R","S","T","U","V","W","X","Y","Z",
              "[","bslash","]","^","_","btick",
              "a","b","c","d","e","f","g","h","i","j","k","l","m",
              "n","o","p","q","r","s","t","u","v","w","x","y","z",
              "{","|","}","~">>

\* UTF-16 code unit of a character, for printable ASCII ("\n", "\t" sort first)
CharCode(c) ==
    IF \E i \in DOMAIN AsciiSeq : AsciiSeq[i] = c
    THEN 31 + (CHOOSE i \in DOMAIN AsciiSeq : AsciiSeq[i] = c)
    ELSE 10

\* the order Array.prototype.sort() uses without a comparator: by code units
RECURSIVE codeUnitLess(_, _)
codeUnitLess(a, b) ==
    IF b = <<>> THEN FALSE
    ELSE IF a = <<>> THEN TRUE
    ELSE IF CharCode(Head(a)) # CharCode(Head(b)) THEN CharCode(Head(a)) < CharCode(Head(b))
    ELSE codeUnitLess(Tail(a), Tail(b))

\* String.prototype.localeCompare (root collation) on printable ASCII: white
\* space, then punctuation, then digits, then letters without regard to case;
\* strings equal up to case are ordered lower case first
PunctSeq == <<"_","-",",",";",":","!","?",".","'","dquote","(",")","[","]","{","}",
              "@","*","/","bslash","&","#","%","btick","^","+","<","=",">","|","~","$">>

PrimaryRank(c) ==
    IF IsSpace(c) THEN 0
    ELSE IF \E i \in DOMAIN PunctSeq : PunctSeq[i] = c
         THEN CHOOSE i \in DOMAIN PunctSeq : PunctSeq[i] = c
    ELSE IF c \in Digits THEN 40 + (CHOOSE n \in 0..9 : ToString(n) = c)
    ELSE 50 + (CHOOSE i \in DOMAIN LowerSeq : LowerSeq[i] = toLowerChar(c))

RECURSIVE primaryCompare(_, _)
primaryCompare(a, b) ==
    IF a = <<>> /\ b = <<>> THEN 0
    ELSE IF a = <<>> THEN 0 - 1
    ELSE IF b = <<>> THEN 1
    ELSE IF PrimaryRank(Head(a)) < PrimaryRank(Head(b)) THEN 0 - 1
    ELSE IF PrimaryRank(Head(a)) > PrimaryRank(Head(b)) THEN 1
    ELSE primaryCompare(Tail(a), Tail(b))

RECURSIVE caseCompare(_, _)
caseCompare(a, b) ==
    IF a = <<>> \/ b = <<>> THEN 0
    ELSE IF Head(a) = Head(b) THEN caseCompare(Tail(a), Tail(b))
    ELSE IF IsLower(Head(a)) THEN 0 - 1
    ELSE 1

localeCompare(a, b) ==
    IF primaryCompare(a, b) # 0 THEN primaryCompare(a, b) ELSE caseCompare(a, b)

(***************************************************************************)
(* JS Map: entries in insertion order                                      *)
(***************************************************************************)
EmptyMap == <<>>

MapHas(m, k) == \E i \in 1..Len(m) : m[i].k = k

MapIndex(m, k) == CHOOSE i \in 1..Len(m) : m[i].k = k

\* m.get(k) || dflt
MapGetOr(m, k, dflt) == IF MapHas(m, k) THEN m[MapIndex(m, k)].v ELSE dflt

\* m.set(k, v): an existing key keeps its position
MapSet(m, k, v) ==
    IF MapHas(m, k)
    THEN [m EXCEPT ![MapIndex(m, k)] = [k |-> k, v |-> v]]
    ELSE Append(m, [k |-> k, v |-> v])

MapKeys(m) == [i \in 1..Len(m) |-> m[i].k]
MapValues(m) == [i \in 1..Len(m) |-> m[i].v]

(***************************************************************************)
(* dataLoader.ts                                                           *)
(***************************************************************************)
PagesPrefix == <<"p","a","g","e","s",":">>
PagePrefix == <<"p","a","g","e",":">>

\* /^pages:(.+)$/
extractUid(atId) ==
    IF startsWith(atId, PagesPrefix) /\ Len(atId) > Len(PagesPrefix)
    THEN SubSeq(atId, Len(PagesPrefix) + 1, Len(atId))
    ELSE atId

\* /^page:(.+)$/
extractRefUid(ref) ==
    IF startsWith(ref, PagePrefix) /\ Len(ref) > Len(PagePrefix)
    THEN SubSeq(ref, Len(PagePrefix) + 1, Len(ref))
    ELSE ref

isNodeSchema(entry) == entry.type = "nodeSchema"
isRelationDef(entry) == entry.type = "relationDef"
isRelationInstance(entry) == entry.type = "relationInstance"
isDiscourseNode(entry) ==
    /\ "title" \in DOMAIN entry
    /\ entry.type # "nodeSchema"
    /\ entry.type # "relationDef"
    /\ entry.type # "relationInstance"

\* NODE_TYPE_REGEX = /^\[\[([A-Z]{3})\]\]/
HasTypePrefix(title) ==
    /\ Len(title) >= 7
    /\ title[1] = "[" /\ title[2] = "["
    /\ IsUpper(title[3]) /\ IsUpper(title[4]) /\ IsUpper(title[5])
    /\ title[6] = "]" /\ title[7] = "]"

extractNodeType(title) ==
    IF HasTypePrefix(title) THEN SubSeq(title, 3, 5) ELSE Null

\* title.replace(/^\[\[[A-Z]{3}\]\]\s*-?\s*/, "").trim()
cleanTitle(title) ==
    IF HasTypePrefix(title)
    THEN LET r1 == dropSpaces(SubSeq(title, 8, Len(title)))
             r2 == IF r1 # <<>> /\ Head(r1) = "-" THEN Tail(r1) ELSE r1
         IN  trim(dropSpaces(r2))
    ELSE trim(title)

parseNode(raw) ==
    [uid |-> extractUid(raw.id),
     nodeType |-> extractNodeType(raw.title),
     title |-> raw.title,
     titleClean |-> cleanTitle(raw.title),
     content |-> raw.content,
     creator |-> raw.creator,
     created |-> raw.created,
     modified |-> raw.modified,
     linkedNodeUids |->
        \* (raw.textRefersToNode || []).map(extractRefUid)
        IF "textRefersToNode" \in DOMAIN raw
        THEN [i \in 1..Len(raw.textRefersToNode) |->
                extractRefUid(raw.textRefersToNode[i])]
        ELSE <<>>]

\* /^_([A-Z]{3})-node$/
schemaUidToNodeType(schemaUid) ==
    IF /\ Len(schemaUid) = 9
       /\ schemaUid[1] = "_"
       /\ IsUpper(schemaUid[2]) /\ IsUpper(schemaUid[3]) /\ IsUpper(schemaUid[4])
       /\ SubSeq(schemaUid, 5, 9) = <<"-","n","o","d","e">>
    THEN SubSeq(schemaUid, 2, 4)
    ELSE Null

EmptyStore ==
    [nodesByUid |-> EmptyMap, nodesByCreator |-> EmptyMap, allNodes |-> <<>>,
     allCreators |-> <<>>, relationDefs |-> EmptyMap,
     relationsBySource |-> EmptyMap, relationsByDestination |-> EmptyMap,
     allRelations |-> <<>>, nodeSchemas |-> EmptyMap]

\* variant of KeepsDefinition: every definition entry is stored
KeepsDefinitionAlways(relationDefs, uid) == TRUE

\* if (!relationDefs.has(uid))
KeepsDefinition(relationDefs, uid) == ~MapHas(relationDefs, uid)

\* first pass, one entry: node schemas and relation definitions
FirstPassStep(st, entry) ==
    IF isNodeSchema(entry)
    THEN LET uid == extractUid(entry.id)
         IN  [st EXCEPT !.nodeSchemas =
                 MapSet(@, uid, [uid |-> uid, label |-> entry.label,
                                 nodeType |-> schemaUidToNodeType(uid)])]
    ELSE IF isRelationDef(entry)
    THEN LET uid == extractUid(entry.id)
         IN  IF KeepsDefinition(st.relationDefs, uid)
             THEN [st EXCEPT !.relationDefs =
                     MapSet(@, uid, [uid |-> uid, label |-> entry.label,
                                     domainUid |-> extractUid(entry.domain),
                                     rangeUid |-> extractUid(entry.range),
                                     domainLabel |-> <<>>, rangeLabel |-> <<>>])]
             ELSE st
    ELSE st

\* relDef.domainLabel = domainSchema?.label || relDef.domainUid (and range)
ResolveLabels(st) ==
    [st EXCEPT !.relationDefs =
        [i \in 1..Len(@) |->
            LET rd == @[i].v
                dl == MapGetOr(st.nodeSchemas, rd.domainUid, [label |-> <<>>]).label
                rl == MapGetOr(st.nodeSchemas, rd.rangeUid, [label |-> <<>>]).label
            IN  [k |-> @[i].k,
                 v |-> [rd EXCEPT !.domainLabel = IF dl # <<>> THEN dl ELSE rd.domainUid,
                                  !.rangeLabel = IF rl # <<>> THEN rl ELSE rd.rangeUid]]]]

UnknownLabel == <<"u","n","k","n","o","w","n">>

\* variant of RelationLabel: relDef?.label without the fallback
RelationLabelOfDefinition(relationDefs, predicateUid) ==
    MapGetOr(relationDefs, predicateUid, [label |-> Undefined]).label

\* relDef?.label || "unknown"
RelationLabel(relationDefs, predicateUid) ==
    LET defLabel == MapGetOr(relationDefs, predicateUid, [label |-> <<>>]).label
    IN  IF defLabel # <<>> THEN defLabel ELSE UnknownLabel

\* second pass, the node branch
IndexNode(st, node) ==
    [st EXCEPT !.nodesByUid = MapSet(@, node.uid, node),
               !.nodesByCreator =
                   MapSet(@, node.creator, Append(MapGetOr(@, node.creator, <<>>), node)),
               !.allNodes = Append(@, node)]

\* second pass, one entry: nodes and relation instances
SecondPassStep(st, entry) ==
    IF isDiscourseNode(entry)
    THEN IndexNode(st, parseNode(entry))
    ELSE IF isRelationInstance(entry)
    THEN LET predicateUid == extractUid(entry.predicate)
             sourceUid == extractUid(entry.source)
             destinationUid == extractUid(entry.destination)
             relation == [predicateUid |-> predicateUid, sourceUid |-> sourceUid,
                          destinationUid |-> destinationUid,
                          label |-> RelationLabel(st.relationDefs, predicateUid)]
         IN  [st EXCEPT
                 !.relationsBySource =
                     MapSet(@, sourceUid, Append(MapGetOr(@, sourceUid, <<>>), relation)),
                 !.relationsByDestination =
                     MapSet(@, destinationUid,
                            Append(MapGetOr(@, destinationUid, <<>>), relation)),
                 !.allRelations = Append(@, relation)]
    ELSE st

RECURSIVE FirstPass(_, _)
FirstPass(st, entries) ==
    IF entries = <<>> THEN st
    ELSE FirstPass(FirstPassStep(st, Head(entries)), Tail(entries))

RECURSIVE SecondPass(_, _)
SecondPass(st, entries) ==
    IF entries = <<>> THEN st
    ELSE SecondPass(SecondPassStep(st, Head(entries)), Tail(entries))

\* insertion of x into a sequence sorted by the default order of Array.prototype.sort
RECURSIVE InsertSorted(_, _)
InsertSorted(sorted, x) ==
    IF sorted = <<>> THEN <<x>>
    ELSE IF codeUnitLess(x, Head(sorted)) THEN <<x>> \o sorted
    ELSE <<Head(sorted)>> \o InsertSorted(Tail(sorted), x)

RECURSIVE SortStrings(_)
SortStrings(s) ==
    IF s = <<>> THEN <<>> ELSE InsertSorted(SortStrings(SubSeq(s, 1, Len(s) - 1)), s[Len(s)])

\* one pass over the entries, each resolved against what precedes it
RECURSIVE SinglePass(_, _)
SinglePass(st, entries) ==
    IF entries = <<>> THEN st
    ELSE SinglePass(SecondPassStep(ResolveLabels(FirstPassStep(st, Head(entries))),
                                   Head(entries)),
                    Tail(entries))

\* variant of loadData: a single pass in input order
loadDataSinglePass(entries) ==
    LET st == SinglePass(EmptyStore, entries)
    IN  [st EXCEPT !.allCreators = SortStrings(MapKeys(st.nodesByCreator))]

\* variant of loadData: the store as it is when the first pass has run
loadDataFirstPassOnly(entries) == ResolveLabels(FirstPass(EmptyStore, entries))

loadData(entries) ==
    LET st == SecondPass(ResolveLabels(FirstPass(EmptyStore, entries)), entries)
    IN  [st EXCEPT !.allCreators = SortStrings(MapKeys(st.nodesByCreator))]

(***************************************************************************)
(* search.ts (keyword search) and tools.ts handleSearchNodes               *)
(***************************************************************************)
\* s.split(/\s+/): the pieces between runs of white space, empty ones included
RECURSIVE SplitLoop(_, _, _, _)
SplitLoop(chars, piece, pieces, inSpace) ==
    IF chars = <<>> THEN Append(pieces, piece)
    ELSE IF IsSpace(Head(chars))
         THEN SplitLoop(Tail(chars), <<>>,
                        IF inSpace THEN pieces ELSE Append(pieces, piece), TRUE)
         ELSE SplitLoop(Tail(chars), Append(piece, Head(chars)), pieces, FALSE)

splitWhitespace(s) == SplitLoop(s, <<>>, <<>>, FALSE)

\* s.replace(/\s+/g, " ")
RECURSIVE collapseWhitespace(_, _)
collapseWhitespace(chars, inSpace) ==
    IF chars = <<>> THEN <<>>
    ELSE IF IsSpace(Head(chars))
         THEN (IF inSpace THEN <<>> ELSE <<" ">>) \o collapseWhitespace(Tail(chars), TRUE)
         ELSE <<Head(chars)>> \o collapseWhitespace(Tail(chars), FALSE)

SnippetMaxLength == 200

\* createSnippet; the model's contents hold no front matter and no image markup
createSnippet(content) ==
    LET cleanContent == collapseWhitespace(trim(content), FALSE)
    IN  IF Len(cleanContent) > SnippetMaxLength
        THEN trim(SubSeq(cleanContent, 1, SnippetMaxLength)) \o <<".", ".", ".">>
        ELSE cleanContent

\* queryWords.every(word => searchableText.includes(word))
matchesQuery(node, queryWords) ==
    LET searchableText == toLowerCase(node.title \o <<" ">> \o node.content)
    IN  \A i \in 1..Len(queryWords) : includes(searchableText, queryWords[i])

\* the comparator of results.sort in the keyword search
KeywordComparison(a, b, orderBy, sortDirection) ==
    LET comparison ==
            IF orderBy = "created" THEN localeCompare(a.created, b.created)
            ELSE IF orderBy = "modified" THEN localeCompare(a.modified, b.modified)
            ELSE localeCompare(toLowerCase(a.titleClean), toLowerCase(b.titleClean))
    IN  IF sortDirection = "asc" THEN comparison ELSE 0 - comparison

\* Array.prototype.sort is stable: x goes behind the elements it does not precede
RECURSIVE InsertByComparison(_, _, _, _)
InsertByComparison(sorted, x, orderBy, sortDirection) ==
    IF sorted = <<>> THEN <<x>>
    ELSE IF KeywordComparison(x, Head(sorted), orderBy, sortDirection) < 0
         THEN <<x>> \o sorted
         ELSE <<Head(sorted)>> \o InsertByComparison(Tail(sorted), x, orderBy, sortDirection)

RECURSIVE SortByComparison(_, _, _)
SortByComparison(nodes, orderBy, sortDirection) ==
    IF nodes = <<>> THEN <<>>
    ELSE InsertByComparison(
             SortByComparison(SubSeq(nodes, 1, Len(nodes) - 1), orderBy, sortDirection),
             nodes[Len(nodes)], orderBy, sortDirection)

\* arr.slice(0, limit) for an integer limit >= 0
slice(arr, limit) == SubSeq(arr, 1, IF limit < Len(arr) THEN limit ELSE Len(arr))

SearchResult(node) ==
    [uid |-> node.uid, nodeType |-> node.nodeType, title |-> node.titleClean,
     creator |-> node.creator, created |-> node.created,
     snippet |-> createSnippet(node.content)]

\* variant of SortAndSlice: the limit is applied before the sort
SliceAndSort(results, orderBy, sortDirection, limit) ==
    IF orderBy # "undefined"
    THEN SortByComparison(slice(results, limit), orderBy, sortDirection)
    ELSE slice(results, limit)

\* if (orderBy) results.sort(...); results = results.slice(0, limit)
SortAndSlice(results, orderBy, sortDirection, limit) ==
    slice(IF orderBy # "undefined"
          THEN SortByComparison(results, orderBy, sortDirection)
          ELSE results,
          limit)

\* search.ts searchNodes
searchNodes(store, query, nodeType, creator, orderBy, sortDirection, limit) ==
    LET queryWords == SelectSeq(splitWhitespace(toLowerCase(query)),
                                LAMBDA w : Len(w) > 0)
        matching == SelectSeq(store.allNodes, LAMBDA n : matchesQuery(n, queryWords))
        typed == SelectSeq(matching,
                           LAMBDA n : ~Truthy(nodeType) \/ n.nodeType = nodeType)
        filtered == SelectSeq(typed,
                              LAMBDA n : ~Truthy(creator)
                                  \/ includes(toLowerCase(n.creator), toLowerCase(creator)))
        results == SortAndSlice(filtered, orderBy, sortDirection, limit)
    IN  [i \in 1..Len(results) |-> SearchResult(results[i])]

\* variant of StoreAfterSearchNodes: results is allNodes itself, sorted in place
StoreAfterSortInPlace(store, args) ==
    IF args.orderBy # "undefined"
    THEN [store EXCEPT !.allNodes =
             SortByComparison(@, args.orderBy, args.sortDirection)]
    ELSE store

\* the store after searchNodes: the filters give a new array, and it is that
\* array that sort reorders and slice copies
StoreAfterSearchNodes(store, args) == store

\* SearchNodesSchema: sortDirection is optional with default "desc"
SearchNodesSchema(input) ==
    [input EXCEPT !.sortDirection = IF @ = "undefined" THEN "desc" ELSE @]

\* tools.ts handleSearchNodes
handleSearchNodes(store, args) ==
    LET results == searchNodes(store, args.query, args.nodeType, args.creator,
                               args.orderBy, args.sortDirection, args.limit)
    IN  [kind |-> "returned", isError |-> FALSE,
         results |-> results, count |-> Len(results)]

(***************************************************************************)
(* BM25 search (the search.ts variant with ranking)                        *)
(***************************************************************************)
\* K1 = 1.5, B = 0.75 as fractions, TITLE_BOOST = 2.0
K1Num == 3
K1Den == 2
BNum == 3
BDen == 4
TITLE_BOOST == 2

\* scores are fixed-point numbers in units of 1/ScoreScale
ScoreScale == 1000 * 100

\* Math.log(n) * ScoreScale, rounded, for n = 1..24
LnTable == <<0, 69315, 109861, 138629, 160944, 179176, 194591, 207944, 219722,
             230259, 239790, 248491, 256495, 263906, 270805, 277259, 283321,
             289037, 294444, 299573, 304452, 309104, 313549, 317805>>

\* text.toLowerCase().replace(/[^\w\s]/g, " ").split(/\s+/).filter(w => w.length > 1)
tokenize(text) ==
    LET lowered == toLowerCase(text)
        replaced == [i \in 1..Len(lowered) |->
                        IF IsWordChar(lowered[i]) \/ IsSpace(lowered[i])
                        THEN lowered[i] ELSE " "]
    IN  SelectSeq(splitWhitespace(replaced), LAMBDA w : Len(w) > 1)

RECURSIVE countTerms(_)
countTerms(tokens) ==
    IF tokens = <<>> THEN EmptyMap
    ELSE LET counts == countTerms(SubSeq(tokens, 1, Len(tokens) - 1))
             token == tokens[Len(tokens)]
         IN  MapSet(counts, token, MapGetOr(counts, token, 0) + 1)

\* for (const term of uniqueTerms) docFreq.set(term, (docFreq.get(term) || 0) + 1)
RECURSIVE BumpDocFreq(_, _)
BumpDocFreq(docFreq, uniqueTerms) ==
    IF uniqueTerms = <<>> THEN docFreq
    ELSE BumpDocFreq(MapSet(docFreq, Head(uniqueTerms),
                            MapGetOr(docFreq, Head(uniqueTerms), 0) + 1),
                     Tail(uniqueTerms))

\* for (const node of dataStore.allNodes) in buildBM25Index
RECURSIVE IndexDocs(_, _)
IndexDocs(acc, nodes) ==
    IF nodes = <<>> THEN acc
    ELSE LET node == Head(nodes)
             contentTokens == tokenize(node.content)
             titleTokens == tokenize(node.title)
             allTokens == contentTokens \o titleTokens
             terms == countTerms(allTokens)
         IN  IndexDocs(
                 [docFreq |-> BumpDocFreq(acc.docFreq, MapKeys(terms)),
                  docs |-> MapSet(acc.docs, node.uid,
                               [terms |-> terms, length |-> Len(allTokens),
                                titleTerms |-> countTerms(titleTokens),
                                titleLength |-> Len(titleTokens)]),
                  totalLength |-> acc.totalLength + Len(allTokens)],
                 Tail(nodes))

\* avgDocLength is kept as the fraction totalLength / allNodes.length
buildBM25Index(store) ==
    LET acc == IndexDocs([docFreq |-> EmptyMap, docs |-> EmptyMap, totalLength |-> 0],
                         store.allNodes)
    IN  [docFreq |-> acc.docFreq,
         avgDocLength |-> [num |-> acc.totalLength, den |-> Len(store.allNodes)],
         numDocs |-> Len(store.allNodes),
         docs |-> acc.docs]

\* Math.log((numDocs - docFreq + 0.5) / (docFreq + 0.5) + 1)
\*   = log((2 numDocs + 2) / (2 docFreq + 1))
Idf(numDocs, docFreq) == LnTable[2 * numDocs + 2] - LnTable[2 * docFreq + 1]

\* variant of TermScore: a term of no document is not skipped but counted with
\* the idf of document frequency 0
TermScoreUnseenCounts(index, docData, term) ==
    LET docFreq == MapGetOr(index.docFreq, term, 0)
        tf == MapGetOr(docData.terms, term, 0)
    IN  IF docFreq = 0 THEN Idf(index.numDocs, 0)
        ELSE IF tf = 0 THEN 0
        ELSE LET idf == Idf(index.numDocs, docFreq)
                 avg == index.avgDocLength
                 tfNum == tf * (K1Num + K1Den) * BDen * avg.num
                 tfDen == tf * K1Den * BDen * avg.num
                          + K1Num * ((BDen - BNum) * avg.num
                                     + BNum * docData.length * avg.den)
                 titleTf == MapGetOr(docData.titleTerms, term, 0)
             IN  (idf * tfNum) \div tfDen
                 + (IF titleTf > 0 THEN idf * TITLE_BOOST ELSE 0)

\* what one pass of the loop of computeBM25Score adds to the score
TermScore(index, docData, term) ==
    LET docFreq == MapGetOr(index.docFreq, term, 0)
        tf == MapGetOr(docData.terms, term, 0)
    IN  IF docFreq = 0 \/ tf = 0 THEN 0
        ELSE LET idf == Idf(index.numDocs, docFreq)
                 avg == index.avgDocLength
                 \* tfScore = (tf (K1 + 1)) / (tf + K1 (1 - B + B length / avg))
                 tfNum == tf * (K1Num + K1Den) * BDen * avg.num
                 tfDen == tf * K1Den * BDen * avg.num
                          + K1Num * ((BDen - BNum) * avg.num
                                     + BNum * docData.length * avg.den)
                 titleTf == MapGetOr(docData.titleTerms, term, 0)
             IN  (idf * tfNum) \div tfDen
                 + (IF titleTf > 0 THEN idf * TITLE_BOOST ELSE 0)

RECURSIVE computeBM25Score(_, _, _)
computeBM25Score(index, docData, queryTerms) ==
    IF queryTerms = <<>> THEN 0
    ELSE TermScore(index, docData, Head(queryTerms))
         + computeBM25Score(index, docData, Tail(queryTerms))

NoDocData == [length |-> 0 - 1]

\* variant of PassesFilters: the creator is compared without lower-casing
PassesFiltersCaseSensitive(node, nodeType, creator) ==
    /\ ~(Truthy(nodeType) /\ node.nodeType # nodeType)
    /\ ~(Truthy(creator) /\ ~includes(node.creator, creator))

\* the two filter tests at the head of the scoring loop
PassesFilters(node, nodeType, creator) ==
    /\ ~(Truthy(nodeType) /\ node.nodeType # nodeType)
    /\ ~(Truthy(creator) /\ ~includes(toLowerCase(node.creator), toLowerCase(creator)))

\* for (const node of dataStore.allNodes) in the BM25 searchNodes
RECURSIVE ScoreNodes(_, _, _, _, _)
ScoreNodes(index, nodes, queryTerms, nodeType, creator) ==
    IF nodes = <<>> THEN <<>>
    ELSE LET node == Head(nodes)
             rest == ScoreNodes(index, Tail(nodes), queryTerms, nodeType, creator)
             docData == MapGetOr(index.docs, node.uid, NoDocData)
             score == computeBM25Score(index, docData, queryTerms)
         IN  IF PassesFilters(node, nodeType, creator) /\ docData # NoDocData /\ score > 0
             THEN <<[node |-> node, score |-> score]>> \o rest
             ELSE rest

\* variant of InsertByScore: the comparator is a.score - b.score
RECURSIVE InsertByScoreAscending(_, _)
InsertByScoreAscending(sorted, x) ==
    IF sorted = <<>> THEN <<x>>
    ELSE IF x.score < Head(sorted).score THEN <<x>> \o sorted
         ELSE <<Head(sorted)>> \o InsertByScoreAscending(Tail(sorted), x)

\* scoredResults.sort((a, b) => b.score - a.score), stable
RECURSIVE InsertByScore(_, _)
InsertByScore(sorted, x) ==
    IF sorted = <<>> THEN <<x>>
    ELSE IF x.score > Head(sorted).score THEN <<x>> \o sorted
         ELSE <<Head(sorted)>> \o InsertByScore(Tail(sorted), x)

RECURSIVE SortByScore(_)
SortByScore(scored) ==
    IF scored = <<>> THEN <<>>
    ELSE InsertByScore(SortByScore(SubSeq(scored, 1, Len(scored) - 1)),
                       scored[Len(scored)])

\* Math.round(score * 100) / 100, in hundredths
RoundedScore(score) == (score + ScoreScale \div 200) \div (ScoreScale \div 100)

\* let bm25Index: BM25Index | null = null
NullIndex == [null |-> TRUE]

\* variant of BuildsIndex: the cache is not consulted
BuildsIndexAlways(cached) == TRUE

\* if (!bm25Index): the search builds the index when none is cached
BuildsIndex(cached) == cached = NullIndex

\* the index the search uses when none is passed: the cached one, built if null
IndexInUse(store, cached) ==
    IF BuildsIndex(cached) THEN buildBM25Index(store) ELSE cached

\* the runs of buildBM25Index in one such search
BuildCount(cached) == IF BuildsIndex(cached) THEN 1 ELSE 0

\* BM25 searchNodes, given the index in use
searchNodesBM25(store, index, query, nodeType, creator, limit) ==
    LET queryTerms == tokenize(query)
    IN  IF Len(queryTerms) = 0 THEN <<>>
        ELSE LET scoredResults ==
                     SortByScore(ScoreNodes(index, store.allNodes, queryTerms,
                                            nodeType, creator))
                 top == slice(scoredResults, limit)
             IN  [i \in 1..Len(top) |->
                     [uid |-> top[i].node.uid, nodeType |-> top[i].node.nodeType,
                      title |-> top[i].node.titleClean,
                      creator |-> top[i].node.creator,
                      created |-> top[i].node.created,
                      snippet |-> createSnippet(top[i].node.content),
                      score |-> RoundedScore(top[i].score)]]

\* handleSearchNodes of the tools.ts that goes with the BM25 search
handleSearchNodesBM25(store, index, args) ==
    LET results == searchNodesBM25(store, index, args.query, args.nodeType,
                                   args.creator, args.limit)
    IN  [kind |-> "returned", isError |-> FALSE,
         results |-> results, count |-> Len(results)]

(***************************************************************************)
(* tools.ts: get_linked_nodes                                              *)
(***************************************************************************)
NodeNotFoundPrefix ==
    <<"N","o","d","e"," ","n","o","t"," ","f","o","u","n","d",":"," ">>

\* { content: [{ error: `Node not found: ${uid}` }], isError: true }
NotFoundResult(uid) ==
    [kind |-> "returned", isError |-> TRUE, error |-> NodeNotFoundPrefix \o uid]

\* what the caller sees when the handler throws (a TypeError)
Thrown == [kind |-> "thrown", isError |-> TRUE]

OutKey(uid) == <<"o","u","t","-">> \o uid
InKey(uid) == <<"i","n","-">> \o uid

NoNode == [uid |-> Undefined]

\* variant of PushLinked: the addedNodes test is left out
PushLinkedAlways(acc, node, direction, relationshipType, key) ==
    [linkedNodes |->
         Append(acc.linkedNodes,
                [uid |-> node.uid, nodeType |-> node.nodeType,
                 title |-> node.titleClean, creator |-> node.creator,
                 direction |-> direction,
                 relationshipType |-> relationshipType]),
     addedNodes |-> acc.addedNodes \cup {key}]

\* variant of PushLinked: for a key already added, the entry takes the
\* annotation of the later occurrence
PushLinkedLastWins(acc, node, direction, relationshipType, key) ==
    IF key \in acc.addedNodes
    THEN LET listed == acc.linkedNodes
         IN  [linkedNodes |->
                  [i \in 1..Len(listed) |->
                      IF listed[i].uid = node.uid /\ listed[i].direction = direction
                      THEN [listed[i] EXCEPT !.relationshipType = relationshipType]
                      ELSE listed[i]],
              addedNodes |-> acc.addedNodes]
    ELSE [linkedNodes |->
              Append(acc.linkedNodes,
                     [uid |-> node.uid, nodeType |-> node.nodeType,
                      title |-> node.titleClean, creator |-> node.creator,
                      direction |-> direction,
                      relationshipType |-> relationshipType]),
          addedNodes |-> acc.addedNodes \cup {key}]

\* linkedNodes.push({...}); addedNodes.add(key), unless the key was added
PushLinked(acc, node, direction, relationshipType, key) ==
    IF key \in acc.addedNodes THEN acc
    ELSE [linkedNodes |->
              Append(acc.linkedNodes,
                     [uid |-> node.uid, nodeType |-> node.nodeType,
                      title |-> node.titleClean, creator |-> node.creator,
                      direction |-> direction,
                      relationshipType |-> relationshipType]),
          addedNodes |-> acc.addedNodes \cup {key}]

\* for (const relation of outgoingRelations)
RECURSIVE LinkedOutgoingRelations(_, _, _)
LinkedOutgoingRelations(store, acc, relations) ==
    IF relations = <<>> THEN acc
    ELSE LET relation == Head(relations)
             destNode == MapGetOr(store.nodesByUid, relation.destinationUid, NoNode)
         IN  LinkedOutgoingRelations(store,
                 IF destNode # NoNode
                 THEN PushLinked(acc, destNode, "outgoing", relation.label,
                                 OutKey(destNode.uid))
                 ELSE acc,
                 Tail(relations))

\* for (const linkedUid of sourceNode.linkedNodeUids)
RECURSIVE LinkedOutgoingRefs(_, _, _)
LinkedOutgoingRefs(store, acc, linkedUids) ==
    IF linkedUids = <<>> THEN acc
    ELSE LET linkedNode == MapGetOr(store.nodesByUid, Head(linkedUids), NoNode)
         IN  LinkedOutgoingRefs(store,
                 IF linkedNode # NoNode
                 THEN PushLinked(acc, linkedNode, "outgoing", Undefined,
                                 OutKey(linkedNode.uid))
                 ELSE acc,
                 Tail(linkedUids))

\* for (const relation of incomingRelations)
RECURSIVE LinkedIncomingRelations(_, _, _)
LinkedIncomingRelations(store, acc, relations) ==
    IF relations = <<>> THEN acc
    ELSE LET relation == Head(relations)
             srcNode == MapGetOr(store.nodesByUid, relation.sourceUid, NoNode)
         IN  LinkedIncomingRelations(store,
                 IF srcNode # NoNode
                 THEN PushLinked(acc, srcNode, "incoming", relation.label,
                                 InKey(srcNode.uid))
                 ELSE acc,
                 Tail(relations))

\* for (const node of dataStore.allNodes)
RECURSIVE LinkedIncomingRefs(_, _, _)
LinkedIncomingRefs(uid, acc, nodes) ==
    IF nodes = <<>> THEN acc
    ELSE LET node == Head(nodes)
         IN  LinkedIncomingRefs(uid,
                 IF node.uid # uid /\ arrayIncludes(node.linkedNodeUids, uid)
                 THEN PushLinked(acc, node, "incoming", Undefined, InKey(node.uid))
                 ELSE acc,
                 Tail(nodes))

LinkedOutgoingPart(store, args, sourceNode, acc) ==
    IF args.direction \in {"outgoing", "both"}
    THEN LinkedOutgoingRefs(store,
             LinkedOutgoingRelations(store, acc,
                 MapGetOr(store.relationsBySource, args.uid, <<>>)),
             sourceNode.linkedNodeUids)
    ELSE acc

LinkedIncomingPart(store, args, acc) ==
    IF args.direction \in {"incoming", "both"}
    THEN LinkedIncomingRefs(args.uid,
             LinkedIncomingRelations(store, acc,
                 MapGetOr(store.relationsByDestination, args.uid, <<>>)),
             store.allNodes)
    ELSE acc

\* the handler from line 276 on, sourceNode being defined
LinkedNodesResult(store, args, sourceNode) ==
    LET acc == LinkedIncomingPart(store, args,
                   LinkedOutgoingPart(store, args, sourceNode,
                       [linkedNodes |-> <<>>, addedNodes |-> {}]))
    IN  [kind |-> "returned", isError |-> FALSE,
         sourceUid |-> args.uid, sourceTitle |-> sourceNode.titleClean,
         linkedNodes |-> acc.linkedNodes,
         count |-> Len(acc.linkedNodes),
         typedRelationCount |->
             Len(SelectSeq(acc.linkedNodes, LAMBDA n : Truthy(n.relationshipType)))]

\* variant of handleGetLinkedNodes: no test of sourceNode, whose first use
\* then throws a TypeError
handleGetLinkedNodesUnchecked(store, args) ==
    LET sourceNode == MapGetOr(store.nodesByUid, args.uid, NoNode)
    IN  IF sourceNode = NoNode THEN Thrown
        ELSE LinkedNodesResult(store, args, sourceNode)

handleGetLinkedNodes(store, args) ==
    LET sourceNode == MapGetOr(store.nodesByUid, args.uid, NoNode)
    IN  IF sourceNode = NoNode THEN NotFoundResult(args.uid)
        ELSE LinkedNodesResult(store, args, sourceNode)

(***************************************************************************)
(* tools.ts: get_schema, get_researcher_contributions, get_relationships,  *)
(* get_relation_types                                                      *)
(***************************************************************************)
\* the keys of COMMON_NODE_TYPE_DESCRIPTIONS
CommonTypes ==
    {<<"R","E","S">>, <<"Q","U","E">>, <<"C","O","N">>, <<"E","V","D">>,
     <<"C","L","M">>, <<"H","Y","P">>, <<"I","S","S">>, <<"S","R","C">>,
     <<"F","L","W">>, <<"A","R","T">>, <<"P","R","J">>, <<"T","H","Y">>}

GenericSuffix ==
    <<" ","n","o","d","e"," ","i","n"," ","t","h","e"," ","d","i","s","c","o","u","r","s","e",
      " ","g","r","a","p","h">>

\* for (const [uid, schema] of dataStore.nodeSchemas.entries()) in handleGetSchema;
\* the text of a common description is stood for by the pair <<"common", type>>
RECURSIVE SchemaNodeTypes(_, _)
SchemaNodeTypes(nodeTypes, schemas) ==
    IF schemas = <<>> THEN nodeTypes
    ELSE LET schema == Head(schemas).v
             label == schema.label
             nodeType == IF Truthy(schema.nodeType) THEN schema.nodeType ELSE label
             description == IF nodeType \in CommonTypes
                            THEN <<"common", nodeType>>
                            ELSE label \o GenericSuffix
         IN  SchemaNodeTypes(
                 MapSet(nodeTypes, nodeType,
                        [label |-> label, description |-> description,
                         uid |-> Head(schemas).k]),
                 Tail(schemas))

handleGetSchema(store) ==
    [kind |-> "returned", isError |-> FALSE,
     nodeTypes |-> SchemaNodeTypes(EmptyMap, store.nodeSchemas),
     totalSchemas |-> Len(store.nodeSchemas)]

UnknownType == <<"U","N","K","N","O","W","N">>

\* byType[type] = (byType[type] || 0) + 1 over the nodes of one creator
RECURSIVE CountByType(_, _)
CountByType(byType, nodes) ==
    IF nodes = <<>> THEN byType
    ELSE LET type == IF Truthy(Head(nodes).nodeType)
                     THEN Head(nodes).nodeType ELSE UnknownType
         IN  CountByType(MapSet(byType, type, MapGetOr(byType, type, 0) + 1),
                         Tail(nodes))

\* summary.sort((a, b) => b.totalNodes - a.totalNodes), stable
RECURSIVE InsertByTotal(_, _)
InsertByTotal(sorted, x) ==
    IF sorted = <<>> THEN <<x>>
    ELSE IF x.totalNodes > Head(sorted).totalNodes THEN <<x>> \o sorted
         ELSE <<Head(sorted)>> \o InsertByTotal(Tail(sorted), x)

RECURSIVE SortByTotal(_)
SortByTotal(summary) ==
    IF summary = <<>> THEN <<>>
    ELSE InsertByTotal(SortByTotal(SubSeq(summary, 1, Len(summary) - 1)),
                       summary[Len(summary)])

\* the nodes of the first creator whose lower-cased name contains the argument
RECURSIVE FirstCreatorMatch(_, _)
FirstCreatorMatch(byCreator, creator) ==
    IF byCreator = <<>> THEN <<>>
    ELSE IF includes(toLowerCase(Head(byCreator).k), toLowerCase(creator))
         THEN Head(byCreator).v
         ELSE FirstCreatorMatch(Tail(byCreator), creator)

handleGetResearcherContributions(store, args) ==
    IF Truthy(args.creator)
    THEN LET exact == MapGetOr(store.nodesByCreator, args.creator, <<>>)
             found == IF Len(exact) = 0
                      THEN FirstCreatorMatch(store.nodesByCreator, args.creator)
                      ELSE exact
             nodes == IF Truthy(args.nodeType)
                      THEN SelectSeq(found, LAMBDA n : n.nodeType = args.nodeType)
                      ELSE found
         IN  [kind |-> "returned", isError |-> FALSE, creator |-> args.creator,
              contributions |->
                  [i \in 1..Len(nodes) |->
                      [uid |-> nodes[i].uid, nodeType |-> nodes[i].nodeType,
                       title |-> nodes[i].titleClean, created |-> nodes[i].created]],
              count |-> Len(nodes)]
    ELSE [kind |-> "returned", isError |-> FALSE,
          researchers |->
              SortByTotal([i \in 1..Len(store.nodesByCreator) |->
                  [creator |-> store.nodesByCreator[i].k,
                   totalNodes |-> Len(store.nodesByCreator[i].v),
                   byType |-> CountByType(EmptyMap, store.nodesByCreator[i].v)]])]

UnknownTitle == <<"U","n","k","n","o","w","n">>

\* variant of Endpoint: node?.titleClean and node?.nodeType without the
\* object for a missing node
EndpointOfNode(store, uid) ==
    LET node == MapGetOr(store.nodesByUid, uid, NoNode)
    IN  IF node # NoNode
        THEN [uid |-> node.uid, title |-> node.titleClean, nodeType |-> node.nodeType]
        ELSE [uid |-> uid, title |-> Undefined, nodeType |-> Undefined]

\* the source / destination object of an enriched relationship
Endpoint(store, uid) ==
    LET node == MapGetOr(store.nodesByUid, uid, NoNode)
    IN  IF node # NoNode
        THEN [uid |-> node.uid, title |-> node.titleClean, nodeType |-> node.nodeType]
        ELSE [uid |-> uid, title |-> UnknownTitle, nodeType |-> Null]

handleGetRelationships(store, args) ==
    LET bySource ==
            IF Truthy(args.sourceUid)
            THEN SelectSeq(store.allRelations, LAMBDA r : r.sourceUid = args.sourceUid)
            ELSE store.allRelations
        byDestination ==
            IF Truthy(args.destinationUid)
            THEN SelectSeq(bySource, LAMBDA r : r.destinationUid = args.destinationUid)
            ELSE bySource
        relationships ==
            IF Truthy(args.relationshipType)
            THEN SelectSeq(byDestination,
                           LAMBDA r : toLowerCase(r.label)
                                          = toLowerCase(args.relationshipType))
            ELSE byDestination
        enrichedRelationships ==
            [i \in 1..Len(relationships) |->
                [source |-> Endpoint(store, relationships[i].sourceUid),
                 destination |-> Endpoint(store, relationships[i].destinationUid),
                 relationshipType |-> relationships[i].label,
                 predicateUid |-> relationships[i].predicateUid]]
    IN  [kind |-> "returned", isError |-> FALSE,
         relationships |-> enrichedRelationships,
         count |-> Len(enrichedRelationships)]

\* typeCounts.get(label) || 0 after the loop over allRelations
InstanceCount(store, label) ==
    Len(SelectSeq(store.allRelations, LAMBDA r : r.label = label))

handleGetRelationTypes(store) ==
    LET defs == MapValues(store.relationDefs)
        relationTypesWithCounts ==
            [i \in 1..Len(defs) |->
                [uid |-> defs[i].uid, label |-> defs[i].label,
                 domain |-> defs[i].domainLabel, range |-> defs[i].rangeLabel,
                 description |-> defs[i].domainLabel \o <<" ">> \o defs[i].label
                                     \o <<" ">> \o defs[i].rangeLabel,
                 instanceCount |-> InstanceCount(store, defs[i].label)]]
    IN  [kind |-> "returned", isError |-> FALSE,
         relationTypes |-> relationTypesWithCounts,
         count |-> Len(relationTypesWithCounts),
         totalRelationships |-> Len(store.allRelations)]

(***************************************************************************)
(* tools.ts: get_node_neighborhood                                         *)
(***************************************************************************)
\* variant of PassesRelationshipFilter: the label is not compared
PassesAnyRelationship(args, relation) == TRUE

PassesRelationshipFilter(args, relation) ==
    ~(Truthy(args.relationshipTypeFilter) /\ relation.label # args.relationshipTypeFilter)

\* outgoing typed relationships: neighbors.set(destinationUid, ...) overwrites
RECURSIVE NeighborsOutgoingRelations(_, _, _)
NeighborsOutgoingRelations(args, neighbors, relations) ==
    IF relations = <<>> THEN neighbors
    ELSE LET relation == Head(relations)
         IN  NeighborsOutgoingRelations(args,
                 IF PassesRelationshipFilter(args, relation)
                 THEN MapSet(neighbors, relation.destinationUid,
                             [nodeUid |-> relation.destinationUid,
                              relationshipType |-> relation.label])
                 ELSE neighbors,
                 Tail(relations))

\* variant of NeighborsOutgoingRefs: the neighbors.has test is left out, so
\* a text reference replaces the entry of a typed relationship
RECURSIVE NeighborsOutgoingRefsOverwrite(_, _)
NeighborsOutgoingRefsOverwrite(neighbors, linkedUids) ==
    IF linkedUids = <<>> THEN neighbors
    ELSE NeighborsOutgoingRefsOverwrite(
             MapSet(neighbors, Head(linkedUids),
                    [nodeUid |-> Head(linkedUids), relationshipType |-> Undefined]),
             Tail(linkedUids))

\* outgoing text references: only if (!neighbors.has(linkedUid))
RECURSIVE NeighborsOutgoingRefs(_, _)
NeighborsOutgoingRefs(neighbors, linkedUids) ==
    IF linkedUids = <<>> THEN neighbors
    ELSE NeighborsOutgoingRefs(
             IF ~MapHas(neighbors, Head(linkedUids))
             THEN MapSet(neighbors, Head(linkedUids),
                         [nodeUid |-> Head(linkedUids), relationshipType |-> Undefined])
             ELSE neighbors,
             Tail(linkedUids))

\* incoming typed relationships: neighbors.set(sourceUid, ...) overwrites
RECURSIVE NeighborsIncomingRelations(_, _, _)
NeighborsIncomingRelations(args, neighbors, relations) ==
    IF relations = <<>> THEN neighbors
    ELSE LET relation == Head(relations)
         IN  NeighborsIncomingRelations(args,
                 IF PassesRelationshipFilter(args, relation)
                 THEN MapSet(neighbors, relation.sourceUid,
                             [nodeUid |-> relation.sourceUid,
                              relationshipType |-> relation.label])
                 ELSE neighbors,
                 Tail(relations))

\* incoming text references: scan of allNodes
RECURSIVE NeighborsIncomingRefs(_, _, _)
NeighborsIncomingRefs(currentUid, neighbors, nodes) ==
    IF nodes = <<>> THEN neighbors
    ELSE LET node == Head(nodes)
         IN  NeighborsIncomingRefs(currentUid,
                 IF /\ node.uid # currentUid
                    /\ arrayIncludes(node.linkedNodeUids, currentUid)
                    /\ ~MapHas(neighbors, node.uid)
                 THEN MapSet(neighbors, node.uid,
                             [nodeUid |-> node.uid, relationshipType |-> Undefined])
                 ELSE neighbors,
                 Tail(nodes))

\* variant of FollowsReferences: text references are walked under a
\* relationship-label filter too
FollowsReferencesAlways(args) == TRUE

\* if (!args.relationshipTypeFilter): text references have no relationship type
FollowsReferences(args) == ~Truthy(args.relationshipTypeFilter)

\* the neighbors Map of one dequeued node
CollectNeighbors(store, args, currentUid, currentNode) ==
    LET out1 == IF args.direction \in {"outgoing", "both"}
                THEN NeighborsOutgoingRelations(args, EmptyMap,
                         MapGetOr(store.relationsBySource, currentUid, <<>>))
                ELSE EmptyMap
        out2 == IF args.direction \in {"outgoing", "both"}
                   /\ FollowsReferences(args)
                THEN NeighborsOutgoingRefs(out1, currentNode.linkedNodeUids)
                ELSE out1
        in1  == IF args.direction \in {"incoming", "both"}
                THEN NeighborsIncomingRelations(args, out2,
                         MapGetOr(store.relationsByDestination, currentUid, <<>>))
                ELSE out2
    IN  IF args.direction \in {"incoming", "both"}
           /\ FollowsReferences(args)
        THEN NeighborsIncomingRefs(currentUid, in1, store.allNodes)
        ELSE in1

\* variant of AlreadyVisited: the visited map is not consulted
AlreadyVisitedNever(visited, nodeUid) == FALSE

\* if (visited.has(nodeUid)) continue
AlreadyVisited(visited, nodeUid) == MapHas(visited, nodeUid)

\* variant of FailsNodeTypeFilter: the category filter is not applied
FailsNodeTypeFilterNever(args, neighborNode) == FALSE

\* if (args.nodeTypeFilter && neighborNode.nodeType !== args.nodeTypeFilter)
FailsNodeTypeFilter(args, neighborNode) ==
    /\ Truthy(args.nodeTypeFilter)
    /\ neighborNode.nodeType # args.nodeTypeFilter

\* args.depth is a JavaScript number: the model holds the number
\* depth + depthHalves / 2 as its whole part, depth, and depthHalves in {0, 1}
DepthInHalves(args) == 2 * args.depth + args.depthHalves

\* the length of Array.from({ length: args.depth + 1 }, ...): ToLength
\* truncates args.depth + 1 to an integer
HopLists(args) == (DepthInHalves(args) + 2) \div 2

\* if (currentDepth >= args.depth) continue
MaxDepthReached(currentDepth, args) == 2 * currentDepth >= DepthInHalves(args)

\* for (const { nodeUid, relationshipType } of neighbors.values())
RECURSIVE ProcessNeighbors(_, _, _, _, _)
ProcessNeighbors(store, args, state, currentDepth, neighborValues) ==
    IF neighborValues = <<>> \/ state.thrown THEN state
    ELSE LET nb == Head(neighborValues)
             neighborNode == MapGetOr(store.nodesByUid, nb.nodeUid, NoNode)
             nextDepth == currentDepth + 1
             skip == \/ AlreadyVisited(state.visited, nb.nodeUid)
                     \/ neighborNode = NoNode
                     \/ FailsNodeTypeFilter(args, neighborNode)
         IN  ProcessNeighbors(store, args,
                 IF skip THEN state
                 ELSE IF nextDepth + 1 > Len(state.nodesByHop)
                 \* nodesByHop[nextDepth] is undefined: push throws
                 THEN [state EXCEPT !.visited = MapSet(@, nb.nodeUid, nextDepth),
                                  !.queue = Append(@, <<nb.nodeUid, nextDepth>>),
                                  !.thrown = TRUE]
                 ELSE [state EXCEPT !.visited = MapSet(@, nb.nodeUid, nextDepth),
                                  !.queue = Append(@, <<nb.nodeUid, nextDepth>>),
                                  !.nodesByHop[nextDepth + 1] =
                                      Append(@, [uid |-> neighborNode.uid,
                                                 nodeType |-> neighborNode.nodeType,
                                                 title |-> neighborNode.titleClean,
                                                 creator |-> neighborNode.creator,
                                                 relationshipType |-> nb.relationshipType])],
                 currentDepth, Tail(neighborValues))

\* one iteration of the while loop: queue.shift() and what follows it
BfsStep(store, args, state) ==
    LET currentUid == Head(state.queue)[1]
        currentDepth == Head(state.queue)[2]
        rest == [state EXCEPT !.queue = Tail(@)]
        currentNode == MapGetOr(store.nodesByUid, currentUid, NoNode)
    IN  IF MaxDepthReached(currentDepth, args) \/ currentNode = NoNode
        THEN rest
        ELSE ProcessNeighbors(store, args, rest, currentDepth,
                 MapValues(CollectNeighbors(store, args, currentUid, currentNode)))

\* while (queue.length > 0)
RECURSIVE BfsLoop(_, _, _)
BfsLoop(store, args, state) ==
    IF state.queue = <<>> \/ state.thrown THEN state
    ELSE BfsLoop(store, args, BfsStep(store, args, state))

RECURSIVE SumLengths(_)
SumLengths(lists) ==
    IF lists = <<>> THEN 0 ELSE Len(Head(lists)) + SumLengths(Tail(lists))

\* visited, queue and nodesByHop when the while loop is entered
InitialBfs(args, startNode) ==
    LET start == [uid |-> startNode.uid, nodeType |-> startNode.nodeType,
                  title |-> startNode.titleClean,
                  creator |-> startNode.creator,
                  relationshipType |-> Undefined]
    IN  [visited |-> MapSet(EmptyMap, args.uid, 0),
         queue |-> << <<args.uid, 0>> >>,
         \* Array.from({ length: args.depth + 1 }, () => [])
         nodesByHop |-> [h \in 1..HopLists(args) |->
                            IF h = 1 THEN <<start>> ELSE <<>>],
         thrown |-> FALSE]

\* what the handler returns when the loop has ended
NeighborhoodAnswer(args, startNode, state) ==
    IF state.thrown THEN Thrown
    ELSE [kind |-> "returned", isError |-> FALSE,
          startUid |-> args.uid, startTitle |-> startNode.titleClean,
          depth |-> args.depth, direction |-> args.direction,
          totalNodes |-> SumLengths(state.nodesByHop),
          hopCounts |-> [h \in 1..Len(state.nodesByHop) |->
                            [hop |-> h - 1, count |-> Len(state.nodesByHop[h])]],
          nodesByHop |-> state.nodesByHop]

\* the handler from line 681 on, startNode being defined
NeighborhoodResult(store, args, startNode) ==
    NeighborhoodAnswer(args, startNode,
                       BfsLoop(store, args, InitialBfs(args, startNode)))

handleGetNodeNeighborhood(store, args) ==
    LET startNode == MapGetOr(store.nodesByUid, args.uid, NoNode)
    IN  IF startNode = NoNode THEN NotFoundResult(args.uid)
        ELSE NeighborhoodResult(store, args, startNode)

\* least and largest depth of GetNodeNeighborhoodSchema
SchemaMinDepth == 1
SchemaMaxDepth == 4

\* GetNodeNeighborhoodSchema.parse(args) succeeds: depth is
\* z.number().min(1).max(4); direction is given in every call of the model
GetNodeNeighborhoodSchema(args) ==
    /\ DepthInHalves(args) >= 2 * SchemaMinDepth
    /\ DepthInHalves(args) <= 2 * SchemaMaxDepth

\* what the caller sees when parse throws: the handler is not called
Rejected == [kind |-> "rejected", isError |-> TRUE]

(***************************************************************************)
(* Input documents for the traversal handlers                              *)
(***************************************************************************)
\* features of a document, beyond its three nodes A, B, C
MaxFeatures == 2
\* largest depth requested (the schema admits 1..4)
MaxDepth == 2

Supports == <<"S","u","p","p","o","r","t","s">>
Informs == <<"I","n","f","o","r","m","s">>
CLM == <<"C","L","M">>
EVD == <<"E","V","D">>

PagesId(name) == PagesPrefix \o <<name>>
PageRef(name) == PagePrefix \o <<name>>

TypedTitle(nodeType, words) == <<"[", "[">> \o nodeType \o <<"]", "]", " ", "-", " ">> \o words

RawNode(name, title, content, creator, created, refs) ==
    [type |-> "page", id |-> PagesId(name), title |-> title, content |-> content,
     creator |-> creator, created |-> created, modified |-> created,
     textRefersToNode |-> refs]

RawRelationDef(name, label) ==
    [type |-> "relationDef", id |-> PagesId(name), label |-> label,
     domain |-> PagesId("X"), range |-> PagesId("Y")]

RawRelationInstance(predicate, source, destination) ==
    [type |-> "relationInstance", predicate |-> PagesId(predicate),
     source |-> PagesId(source), destination |-> PagesId(destination)]

\* a typed relationship: predicate P is "Supports", Q is "Informs", U is not
\* defined; Z is the uid of no node
TypedFeatures ==
    {[f |-> "rel", p |-> "P", s |-> "A", d |-> "B"],
     [f |-> "rel", p |-> "Q", s |-> "A", d |-> "B"],
     [f |-> "rel", p |-> "Q", s |-> "B", d |-> "A"],
     [f |-> "rel", p |-> "P", s |-> "B", d |-> "C"],
     [f |-> "rel", p |-> "P", s |-> "A", d |-> "Z"],
     [f |-> "rel", p |-> "P", s |-> "Z", d |-> "A"],
     [f |-> "rel", p |-> "U", s |-> "C", d |-> "A"]}

\* a text cross-reference from node s to d
RefFeatures ==
    {[f |-> "ref", p |-> "-", s |-> "A", d |-> "B"],
     [f |-> "ref", p |-> "-", s |-> "B", d |-> "C"],
     [f |-> "ref", p |-> "-", s |-> "B", d |-> "A"],
     [f |-> "ref", p |-> "-", s |-> "C", d |-> "C"],
     [f |-> "ref", p |-> "-", s |-> "A", d |-> "Z"]}

\* a second node entry with the uid of B, of another type and without references
DupFeatures == {[f |-> "dup", p |-> "-", s |-> "B", d |-> "-"]}

Features == TypedFeatures \cup RefFeatures \cup DupFeatures

FeatureLists == UNION {[1..n -> Features] : n \in 0..MaxFeatures}

RefsOf(name, fs) ==
    LET mine == SelectSeq(fs, LAMBDA x : x.f = "ref" /\ x.s = name)
    IN  [i \in 1..Len(mine) |-> PageRef(mine[i].d)]

Word(name) == <<"n", "o", "d", "e", " ", name>>
Alice == <<"A","l","i","c","e">>
Year == <<"2","0","2","4">>

GraphFile(fs) ==
    LET rels == SelectSeq(fs, LAMBDA x : x.f = "rel")
        dups == SelectSeq(fs, LAMBDA x : x.f = "dup")
    IN  <<RawRelationDef("P", Supports), RawRelationDef("Q", Informs),
          RawNode("A", TypedTitle(CLM, Word("A")), Word("A"), Alice, Year, RefsOf("A", fs)),
          RawNode("B", TypedTitle(EVD, Word("B")), Word("B"), Alice, Year, RefsOf("B", fs)),
          RawNode("C", TypedTitle(CLM, Word("C")), Word("C"), Alice, Year, RefsOf("C", fs))>>
        \o [i \in 1..Len(rels) |-> RawRelationInstance(rels[i].p, rels[i].s, rels[i].d)]
        \o [i \in 1..Len(dups) |->
               RawNode(dups[i].s, TypedTitle(CLM, Word("D")), Word("D"), Alice, Year, <<>>)]

GraphFiles == {GraphFile(fs) : fs \in FeatureLists}

Directions == {"outgoing", "incoming", "both"}
\* uids asked about: two loaded ones and one that is not loaded
QueryUids == {<<"A">>, <<"B">>, <<"Z">>}
NodeTypeFilters == {Undefined, CLM}
RelationshipTypeFilters == {Undefined, Supports}

(***************************************************************************)
(* Documents for the searches                                              *)
(***************************************************************************)
\* node entries of a document
MaxDocs == 2
\* largest limit requested
MaxLimit == 2

UidNames == <<"A", "B", "C", "D">>
Al == <<"A","l">>
Bo == <<"B","o">>

\* the node entries a document is made of; the first two differ in the title only
DocKinds ==
    << [title |-> TypedTitle(CLM, <<"a","b">>),
        content |-> <<"a","b"," ","e","f"," ","e","f">>,
        creator |-> Al, created |-> <<"2","0","2","1">>,
        modified |-> <<"2","0","2","4">>],
       [title |-> TypedTitle(EVD, <<"c","d">>),
        content |-> <<"a","b"," ","e","f"," ","e","f">>,
        creator |-> Bo, created |-> <<"2","0","2","2">>,
        modified |-> <<"2","0","2","3">>],
       [title |-> <<"A","b"," ","c","d">>,
        content |-> <<"c","d",","," "," ","e"," ","f">>,
        creator |-> Al, created |-> <<"2","0","2","3">>,
        modified |-> <<"2","0","2","2">>] >>

RawDoc(name, kind) ==
    [type |-> "page", id |-> PagesId(name), title |-> DocKinds[kind].title,
     content |-> DocKinds[kind].content, creator |-> DocKinds[kind].creator,
     created |-> DocKinds[kind].created, modified |-> DocKinds[kind].modified]

\* entry i has its own uid or repeats the uid of the first entry
DocLists ==
    UNION {{l \in [1..n -> (1..Len(DocKinds)) \X (1..MaxDocs)] :
               \A i \in 1..n : l[i][2] \in {1, i}} : n \in 0..MaxDocs}

SearchFiles == {[i \in 1..Len(l) |-> RawDoc(UidNames[l[i][2]], l[i][1])] : l \in DocLists}

Queries ==
    {<<>>, <<" ", " ">>, <<"a", " ", "!">>, <<"a","b">>, <<"c","d">>, <<"e","f">>,
     <<"A","b"," ","c","d">>, <<"a","b"," ","a","b">>, <<"c","d"," ","z","z">>}
KeywordQueries == {<<>>, <<" ", " ">>, <<"a">>, <<"e","f">>, <<"A","b"," ","c","d">>}
SearchNodeTypes == {Undefined, <<>>, CLM}
SearchCreators == {Undefined, <<"a","l">>}
RelationshipSources == {Undefined, <<"A">>}
RelationshipDestinations == {Undefined, <<"B">>}
RelationshipTypes == {Undefined, <<"s","u","p","p","o","r","t","s">>}
ContributionCreators == {Undefined, <<"a","l">>, Bo}
\* orderBy and sortDirection of the call, each "undefined" when absent
Orderings ==
    {<<"undefined", "undefined">>, <<"created", "desc">>}
        \cup ({"created", "modified", "title"} \X {"undefined", "asc"})

(***************************************************************************)
(* The server: main() loads the document, then tool calls are served       *)
(***************************************************************************)
\* let dataStore: DataStore, not assigned before main() has loaded the document
NoStore == [undefined |-> TRUE]
\* no get_node_neighborhood call is in its loop
NoBfs == [queue |-> <<>>]
NoRequest == [tool |-> "none"]
NoResponse == [kind |-> "none"]

InitWith(files) ==
    /\ file \in files
    /\ pc = "main"
    /\ dataStore = NoStore
    /\ bm25Index = NullIndex
    /\ builds = 0
    /\ bfs = NoBfs
    /\ request = NoRequest
    /\ response = NoResponse

\* index.ts main(): dataStore = loadData(DATA_PATH), then server.connect
Main ==
    /\ pc = "main"
    /\ dataStore' = loadData(file)
    /\ pc' = "idle"
    /\ UNCHANGED <<file, bm25Index, builds, bfs, request, response>>

\* the transport sends the handler's result; the server waits for the next call
Reply ==
    /\ pc = "replying"
    /\ pc' = "idle"
    /\ request' = NoRequest
    /\ response' = NoResponse
    /\ UNCHANGED <<file, dataStore, bm25Index, builds, bfs>>

GetLinkedNodes ==
    /\ pc = "idle"
    /\ \E uid \in QueryUids, direction \in Directions :
          LET args == [uid |-> uid, direction |-> direction]
          IN  /\ request' = [tool |-> "get_linked_nodes", args |-> args]
              /\ response' = handleGetLinkedNodes(dataStore, args)
    /\ pc' = "replying"
    /\ UNCHANGED <<file, dataStore, bm25Index, builds, bfs>>

GetNodeNeighborhood ==
    /\ pc = "idle"
    /\ \E uid \in QueryUids, depth \in 1..MaxDepth, direction \in Directions,
          nodeTypeFilter \in NodeTypeFilters,
          relationshipTypeFilter \in RelationshipTypeFilters :
          LET args == [uid |-> uid, depth |-> depth, depthHalves |-> 0,
                       direction |-> direction,
                       nodeTypeFilter |-> nodeTypeFilter,
                       relationshipTypeFilter |-> relationshipTypeFilter]
          IN  /\ request' = [tool |-> "get_node_neighborhood", args |-> args]
              /\ response' = handleGetNodeNeighborhood(dataStore, args)
    /\ pc' = "replying"
    /\ UNCHANGED <<file, dataStore, bm25Index, builds, bfs>>

GetRelationships ==
    /\ pc = "idle"
    /\ \E sourceUid \in RelationshipSources,
          destinationUid \in RelationshipDestinations,
          relationshipType \in RelationshipTypes :
          LET args == [sourceUid |-> sourceUid, destinationUid |-> destinationUid,
                       relationshipType |-> relationshipType]
          IN  /\ request' = [tool |-> "get_relationships", args |-> args]
              /\ response' = handleGetRelationships(dataStore, args)
    /\ pc' = "replying"
    /\ UNCHANGED <<file, dataStore, bm25Index, builds, bfs>>

GetRelationTypes ==
    /\ pc = "idle"
    /\ request' = [tool |-> "get_relation_types"]
    /\ response' = handleGetRelationTypes(dataStore)
    /\ pc' = "replying"
    /\ UNCHANGED <<file, dataStore, bm25Index, builds, bfs>>

GetResearcherContributions ==
    /\ pc = "idle"
    /\ \E creator \in ContributionCreators, nodeType \in NodeTypeFilters :
          LET args == [creator |-> creator, nodeType |-> nodeType]
          IN  /\ request' = [tool |-> "get_researcher_contributions", args |-> args]
              /\ response' = handleGetResearcherContributions(dataStore, args)
    /\ pc' = "replying"
    /\ UNCHANGED <<file, dataStore, bm25Index, builds, bfs>>

GetSchema ==
    /\ pc = "idle"
    /\ request' = [tool |-> "get_schema"]
    /\ response' = handleGetSchema(dataStore)
    /\ pc' = "replying"
    /\ UNCHANGED <<file, dataStore, bm25Index, builds, bfs>>

Init == InitWith(GraphFiles)

Next ==
    \/ Main \/ Reply \/ GetLinkedNodes \/ GetNodeNeighborhood
    \/ GetRelationships \/ GetRelationTypes

Spec == Init /\ [][Next]_vars

\* search_nodes served by the keyword search
SearchNodes ==
    /\ pc = "idle"
    /\ \E query \in KeywordQueries, nodeType \in SearchNodeTypes,
          creator \in SearchCreators, ordering \in Orderings, limit \in 0..MaxLimit :
          LET input == [query |-> query, nodeType |-> nodeType, creator |-> creator,
                        orderBy |-> ordering[1], sortDirection |-> ordering[2],
                        limit |-> limit]
              args == SearchNodesSchema(input)
          IN  /\ request' = [tool |-> "search_nodes", search |-> "keyword",
                              input |-> input, args |-> args]
              /\ response' = handleSearchNodes(dataStore, args)
              /\ dataStore' = StoreAfterSearchNodes(dataStore, args)
    /\ pc' = "replying"
    /\ UNCHANGED <<file, bm25Index, builds, bfs>>

\* search_nodes served by the BM25 search; the index is built on the first call
SearchNodesBM25 ==
    /\ pc = "idle"
    /\ \E query \in Queries, nodeType \in SearchNodeTypes,
          creator \in SearchCreators, limit \in 0..MaxLimit :
          LET args == [query |-> query, nodeType |-> nodeType, creator |-> creator,
                       limit |-> limit]
          IN  \E index \in {IndexInUse(dataStore, bm25Index)} :
                  /\ request' = [tool |-> "search_nodes", search |-> "bm25",
                                  args |-> args]
                  /\ response' = handleSearchNodesBM25(dataStore, index, args)
                  /\ bm25Index' = index
                  /\ builds' = builds + BuildCount(bm25Index)
    /\ pc' = "replying"
    /\ UNCHANGED <<file, dataStore, bfs>>

InitSearch == InitWith(SearchFiles)

\* the server built with the BM25 search
NextSearch == Main \/ Reply \/ SearchNodesBM25

SpecSearch == InitSearch /\ [][NextSearch]_vars

\* a caller of the library loads another document: dataStore = loadData(path);
\* loadData does not touch the module variable bm25Index of the search
Load ==
    /\ pc = "idle"
    /\ file' \in SearchFiles
    /\ dataStore' = loadData(file')
    /\ UNCHANGED <<pc, bm25Index, builds, bfs, request, response>>

\* loads and BM25 searches in any sequence
NextReload == Main \/ Reply \/ Load \/ SearchNodesBM25

SpecReload == InitSearch /\ [][NextReload]_vars

(***************************************************************************)
(* Several callers of search_nodes at once. The handler registered with    *)
(* server.tool is async () => handleSearchNodes(dataStore, args): it holds *)
(* no await, so one call of it runs from its first statement to its return *)
(* before the event loop starts any other callback. Calls of different     *)
(* callers interleave at the arrival of a request, the run of its handler  *)
(* and the sending of its result.                                          *)
(***************************************************************************)
\* callers with a call in flight at the same time
MaxCallers == 2

Callers == 1..MaxCallers

ConcurrentQueries == {<<"a","b">>, <<"c","d">>}

InitConcurrent ==
    /\ file \in SearchFiles
    /\ pc = [c \in Callers |-> "main"]
    /\ dataStore = NoStore
    /\ bm25Index = NullIndex
    /\ builds = 0
    /\ bfs = NoBfs
    /\ request = [c \in Callers |-> NoRequest]
    /\ response = [c \in Callers |-> NoResponse]

\* main(): the document is loaded before the transport is connected
MainConcurrent ==
    /\ \A c \in Callers : pc[c] = "main"
    /\ dataStore' = loadData(file)
    /\ pc' = [c \in Callers |-> "idle"]
    /\ UNCHANGED <<file, bm25Index, builds, bfs, request, response>>

\* a search_nodes request of caller c arrives
CallSearch(c) ==
    /\ pc[c] = "idle"
    /\ \E query \in ConcurrentQueries :
          request' = [request EXCEPT ![c] =
                         [tool |-> "search_nodes", search |-> "bm25",
                          args |-> [query |-> query, nodeType |-> Undefined,
                                    creator |-> Undefined, limit |-> MaxLimit]]]
    /\ pc' = [pc EXCEPT ![c] = "called"]
    /\ UNCHANGED <<file, dataStore, bm25Index, builds, bfs, response>>

\* the handler of c's request runs to its return
ServeSearch(c) ==
    /\ pc[c] = "called"
    /\ \E index \in {IndexInUse(dataStore, bm25Index)} :
          /\ response' = [response EXCEPT ![c] =
                              handleSearchNodesBM25(dataStore, index, request[c].args)]
          /\ bm25Index' = index
          /\ builds' = builds + BuildCount(bm25Index)
    /\ pc' = [pc EXCEPT ![c] = "replying"]
    /\ UNCHANGED <<file, dataStore, bfs, request>>

\* the result is sent to caller c
ReplyTo(c) ==
    /\ pc[c] = "replying"
    /\ pc' = [pc EXCEPT ![c] = "idle"]
    /\ request' = [request EXCEPT ![c] = NoRequest]
    /\ response' = [response EXCEPT ![c] = NoResponse]
    /\ UNCHANGED <<file, dataStore, bm25Index, builds, bfs>>

NextConcurrent ==
    \/ MainConcurrent
    \/ \E c \in Callers : CallSearch(c)
    \/ \E c \in Callers : ServeSearch(c)
    \/ \E c \in Callers : ReplyTo(c)

SpecConcurrent == InitConcurrent /\ [][NextConcurrent]_vars

(***************************************************************************)
(* Documents for the loader: schemas, definitions, instances and a node in *)
(* every order                                                             *)
(***************************************************************************)
\* entries of a loader document
MaxEntries == 3

Claim == <<"C","l","a","i","m">>
Assertion == <<"A","s","s","e","r","t","i","o","n">>
ClmSchema == <<"_","C","L","M","-","n","o","d","e">>
EvdSchema == <<"_","E","V","D","-","n","o","d","e">>

RawNodeSchema(uid, label) ==
    [type |-> "nodeSchema", id |-> PagesPrefix \o uid, label |-> label,
     content |-> <<>>, creator |-> Alice, created |-> Year, modified |-> Year]

\* two schema entries of one uid; two definition entries of one uid that differ
\* in label, domain and range (the schema _EVD-node is in no document); a
\* definition of another uid with the label of the first; an instance of the
\* defined predicate P and one of the undefined U; a node
LoaderEntries ==
    << RawNodeSchema(ClmSchema, Claim),
       RawNodeSchema(ClmSchema, Assertion),
       [type |-> "relationDef", id |-> PagesId("P"), label |-> Supports,
        domain |-> PagesPrefix \o ClmSchema, range |-> PagesPrefix \o EvdSchema],
       [type |-> "relationDef", id |-> PagesId("P"), label |-> Informs,
        domain |-> PagesId("Y"), range |-> PagesPrefix \o ClmSchema],
       [type |-> "relationDef", id |-> PagesId("R"), label |-> Supports,
        domain |-> PagesId("Y"), range |-> PagesPrefix \o ClmSchema],
       RawRelationInstance("P", "A", "B"),
       RawRelationInstance("U", "A", "B"),
       RawNode("A", TypedTitle(CLM, Word("A")), Word("A"), Alice, Year, <<>>) >>

\* the documents: up to MaxEntries different entries in any order
LoaderFiles ==
    UNION {{[i \in 1..n |-> LoaderEntries[l[i]]] :
               l \in {m \in [1..n -> 1..Len(LoaderEntries)] :
                         \A i, j \in 1..n : i # j => m[i] # m[j]}} :
           n \in 0..MaxEntries}

InitLoad == InitWith(LoaderFiles)

NextLoad == Main \/ Reply \/ GetRelationTypes \/ GetRelationships \/ GetSchema

SpecLoad == InitLoad /\ [][NextLoad]_vars

(***************************************************************************)
(* get_node_neighborhood with its while loop run one iteration at a time,  *)
(* on documents with cycles, self-references and mutual references         *)
(***************************************************************************)
\* relationships and references that close cycles among A, B and C
CycleFeatures ==
    {[f |-> "rel", p |-> "P", s |-> "A", d |-> "B"],
     [f |-> "rel", p |-> "P", s |-> "B", d |-> "C"],
     [f |-> "ref", p |-> "-", s |-> "A", d |-> "B"],
     [f |-> "ref", p |-> "-", s |-> "B", d |-> "A"],
     [f |-> "ref", p |-> "-", s |-> "C", d |-> "C"]}

CycleFiles ==
    {GraphFile(fs) : fs \in UNION {[1..n -> CycleFeatures] : n \in 0..MaxFeatures}}

InitBfs == InitWith(CycleFiles)

\* the handler up to the while loop
BeginNeighborhood ==
    /\ pc = "idle"
    /\ \E uid \in QueryUids, depth \in 1..MaxDepth, direction \in Directions :
          LET args == [uid |-> uid, depth |-> depth, depthHalves |-> 0,
                       direction |-> direction,
                       nodeTypeFilter |-> Undefined,
                       relationshipTypeFilter |-> Undefined]
              startNode == MapGetOr(dataStore.nodesByUid, uid, NoNode)
          IN  /\ request' = [tool |-> "get_node_neighborhood", args |-> args]
              /\ IF startNode = NoNode
                 THEN /\ response' = NotFoundResult(uid)
                      /\ pc' = "replying"
                      /\ bfs' = bfs
                 ELSE /\ response' = response
                      /\ pc' = "traversing"
                      /\ bfs' = InitialBfs(args, startNode)
    /\ UNCHANGED <<file, dataStore, bm25Index, builds>>

\* depths asked for: whole and half numbers from 0 to above the schema's maximum
RequestedDepths == (0..(SchemaMaxDepth + 1)) \X {0, 1}

\* the callback of get_node_neighborhood: parse, then the handler
CallNodeNeighborhood ==
    /\ pc = "idle"
    /\ \E uid \in QueryUids, depth \in RequestedDepths, direction \in Directions :
          LET args == [uid |-> uid, depth |-> depth[1], depthHalves |-> depth[2],
                       direction |-> direction,
                       nodeTypeFilter |-> Undefined,
                       relationshipTypeFilter |-> Undefined]
          IN  /\ request' = [tool |-> "get_node_neighborhood", args |-> args]
              /\ response' = IF GetNodeNeighborhoodSchema(args)
                             THEN handleGetNodeNeighborhood(dataStore, args)
                             ELSE Rejected
    /\ pc' = "replying"
    /\ UNCHANGED <<file, dataStore, bm25Index, builds, bfs>>

NextDepth == Main \/ Reply \/ CallNodeNeighborhood

SpecDepth == InitBfs /\ [][NextDepth]_vars

\* one iteration of while (queue.length > 0)
BfsIteration ==
    /\ pc = "traversing"
    /\ bfs.queue # <<>> /\ ~bfs.thrown
    /\ bfs' = BfsStep(dataStore, request.args, bfs)
    /\ UNCHANGED <<file, pc, dataStore, bm25Index, builds, request, response>>

\* the loop has ended: the handler returns
EndNeighborhood ==
    /\ pc = "traversing"
    /\ bfs.queue = <<>> \/ bfs.thrown
    /\ response' = NeighborhoodAnswer(request.args,
                                      MapGetOr(dataStore.nodesByUid,
                                               request.args.uid, NoNode), bfs)
    /\ bfs' = NoBfs
    /\ pc' = "replying"
    /\ UNCHANGED <<file, dataStore, bm25Index, builds, request>>

NextBfs == Main \/ Reply \/ BeginNeighborhood \/ BfsIteration \/ EndNeighborhood

\* the handler is synchronous code: once called it keeps running
SpecBfs ==
    /\ InitBfs /\ [][NextBfs]_vars
    /\ WF_vars(BfsIteration) /\ WF_vars(EndNeighborhood)

\* the server built with the keyword search and the other query tools
NextKeyword ==
    \/ Main \/ Reply \/ SearchNodes \/ GetLinkedNodes \/ GetNodeNeighborhood
    \/ GetSchema \/ GetResearcherContributions
    \/ GetRelationships \/ GetRelationTypes

SpecKeyword == InitSearch /\ [][NextKeyword]_vars

(***************************************************************************)
(* Vocabulary of the properties                                            *)
(***************************************************************************)
Range(seq) == {seq[i] : i \in 1..Len(seq)}

Loaded == pc # "main"

Answered(tool) ==
    pc = "replying" /\ request.tool = tool /\ response.kind = "returned"
        /\ ~response.isError

\* some relation instance of the store with this label joins source to destination
TypedEdge(source, destination, label) ==
    \E r \in Range(dataStore.allRelations) :
        r.sourceUid = source /\ r.destinationUid = destination /\ r.label = label

\* some loaded node entry with uid `source` lists `destination` among its references
TextEdge(source, destination) ==
    \E n \in Range(dataStore.allNodes) :
        n.uid = source /\ arrayIncludes(n.linkedNodeUids, destination)

LabelsInStore == {r.label : r \in Range(dataStore.allRelations)}

\* x is joined to y by a typed relationship labelled `label`, in the direction asked
TypedNeighbour(x, y, direction, label) ==
    \/ direction \in {"outgoing", "both"} /\ TypedEdge(x, y, label)
    \/ direction \in {"incoming", "both"} /\ TypedEdge(y, x, label)

TextNeighbour(x, y, direction) ==
    \/ direction \in {"outgoing", "both"} /\ TextEdge(x, y)
    \/ direction \in {"incoming", "both"} /\ x # y /\ TextEdge(y, x)

\* y is a neighbour of x in the direction asked, under the relationship-label filter
FilteredNeighbour(x, y, direction, labelFilter) ==
    IF Truthy(labelFilter)
    THEN TypedNeighbour(x, y, direction, labelFilter)
    ELSE \/ \E l \in LabelsInStore : TypedNeighbour(x, y, direction, l)
         \/ TextNeighbour(x, y, direction)

(***************************************************************************)
(* C1: for every loaded uid the "both" result of get_linked_nodes is the   *)
(* union of the "outgoing" and the "incoming" results, and no neighbour    *)
(* uid occurs more than once in the "both" list.                           *)
(***************************************************************************)
LinkedFor(direction) ==
    handleGetLinkedNodes(dataStore, [uid |-> request.args.uid,
                                     direction |-> direction]).linkedNodes

BothIsUnion ==
    Range(response.linkedNodes) = Range(LinkedFor("outgoing")) \cup Range(LinkedFor("incoming"))

\* C1: the "both" result of get_linked_nodes is the union of the "outgoing"
\* and the "incoming" result, and no uid occurs in it more than once
C1_BothIsUnionNoDuplicateUid ==
    (Answered("get_linked_nodes") /\ request.args.direction = "both") =>
        /\ BothIsUnion
        /\ \A i, j \in 1..Len(response.linkedNodes) :
              i # j => response.linkedNodes[i].uid # response.linkedNodes[j].uid

\* C1 as amended: the "both" result holds exactly the entries of the
\* "outgoing" and of the "incoming" result, and no uid occurs more than once
\* per direction (a node that is both an outgoing and an incoming neighbour
\* is listed twice, once per direction).
C1_BothIsUnionOncePerDirection ==
    (Answered("get_linked_nodes") /\ request.args.direction = "both") =>
        /\ BothIsUnion
        /\ \A i, j \in 1..Len(response.linkedNodes) :
              i # j =>
                  \/ response.linkedNodes[i].uid # response.linkedNodes[j].uid
                  \/ response.linkedNodes[i].direction # response.linkedNodes[j].direction

C1_Witness ==
    /\ Answered("get_linked_nodes") /\ request.args.direction = "both"
    /\ \E i, j \in 1..Len(response.linkedNodes) :
          /\ response.linkedNodes[i].uid = response.linkedNodes[j].uid
          /\ response.linkedNodes[i].direction = "outgoing"
          /\ response.linkedNodes[j].direction = "incoming"

(***************************************************************************)
(* C2: get_node_neighborhood with depth D lists no node at a hop beyond D, *)
(* and every node listed at hop h > 0 is a neighbour, in the direction     *)
(* asked and under the relationship-label filter, of a node listed at hop  *)
(* h - 1.                                                                  *)
(***************************************************************************)
\* the list of hop h (hop 0 is the first list)
Hop(h) == response.nodesByHop[h + 1]

\* C2: the neighborhood of depth D has no list beyond hop D, and every node
\* at hop h > 0 is a neighbour, in the direction and under the label filter
\* asked, of some node at hop h - 1
C2_HopsBoundedAndChained ==
    Answered("get_node_neighborhood") =>
        /\ Len(response.nodesByHop) <= request.args.depth + 1
        /\ \A h \in 1..(Len(response.nodesByHop) - 1) :
              \A n \in Range(Hop(h)) :
                  \E prev \in Range(Hop(h - 1)) :
                      FilteredNeighbour(prev.uid, n.uid, request.args.direction,
                                        request.args.relationshipTypeFilter)

C2_Witness ==
    /\ Answered("get_node_neighborhood")
    /\ request.args.depth = 2
    /\ Truthy(request.args.relationshipTypeFilter)
    /\ Hop(2) # <<>>

(***************************************************************************)
(* C3: get_linked_nodes and get_node_neighborhood called with a uid that   *)
(* is no key of nodesByUid return the "Node not found" result with isError *)
(* true; they do not throw.                                                *)
(***************************************************************************)
TraversalTools == {"get_linked_nodes", "get_node_neighborhood"}

\* C3: for a uid that is no key of nodesByUid both traversal tools return the
\* "Node not found" result with isError true, and do not throw
C3_UnknownUidIsNotFound ==
    (pc = "replying" /\ request.tool \in TraversalTools
        /\ ~MapHas(dataStore.nodesByUid, request.args.uid)) =>
        /\ response.kind = "returned"
        /\ response.isError
        /\ response.error = NodeNotFoundPrefix \o request.args.uid

C3_Witness ==
    /\ pc = "replying" /\ request.tool = "get_node_neighborhood"
    /\ ~MapHas(dataStore.nodesByUid, request.args.uid)
    /\ Truthy(request.args.nodeTypeFilter)
    /\ response.kind = "returned" /\ response.isError

(***************************************************************************)
(* C5: after loadData every node-holding structure (nodesByUid, allNodes,  *)
(* the nodesByCreator lists) holds at most one node per uid, the one built *)
(* from the last input entry with that uid.                                *)
(***************************************************************************)
NodeEntries == SelectSeq(file, isDiscourseNode)

\* the node built from the last node entry of the document with this uid
LastNodeWithUid(uid) ==
    LET idx == {i \in 1..Len(NodeEntries) : extractUid(NodeEntries[i].id) = uid}
    IN  parseNode(NodeEntries[CHOOSE i \in idx : \A j \in idx : j <= i])

OnePerUidLastWins(nodes) ==
    /\ \A i, j \in 1..Len(nodes) : i # j => nodes[i].uid # nodes[j].uid
    /\ \A i \in 1..Len(nodes) : nodes[i] = LastNodeWithUid(nodes[i].uid)

\* C5: after loadData nodesByUid, allNodes and every nodesByCreator list hold
\* at most one node per uid, the one built from the last entry with that uid
C5_UidUniqueLastWins ==
    Loaded =>
        /\ OnePerUidLastWins(MapValues(dataStore.nodesByUid))
        /\ OnePerUidLastWins(dataStore.allNodes)
        /\ \A i \in 1..Len(dataStore.nodesByCreator) :
              OnePerUidLastWins(dataStore.nodesByCreator[i].v)

(***************************************************************************)
(* C6: in the neighborhood output a node reached from the previous hop     *)
(* through a typed relationship carries that relationship's label, and a   *)
(* node reachable from the previous hop only through a text reference      *)
(* carries none.  For A -Supports-> B, B -text-> C: get_linked_nodes(A,    *)
(* outgoing) is [B] labelled Supports, and the neighborhood of A at depth  *)
(* 2, outgoing, is [A], [B], [C] with C unlabelled.                        *)
(***************************************************************************)
\* the first node of the previous hop, in list order, that has n as a neighbour
Discoverer(h, n) ==
    LET dir == request.args.direction
        flt == request.args.relationshipTypeFilter
        idx == {i \in 1..Len(Hop(h - 1)) :
                   FilteredNeighbour(Hop(h - 1)[i].uid, n.uid, dir, flt)}
    IN  Hop(h - 1)[CHOOSE i \in idx : \A j \in idx : i <= j]

LabelledAsReached(h, n) ==
    LET dir == request.args.direction
        flt == request.args.relationshipTypeFilter
        typedFrom(x) == {l \in LabelsInStore :
                            /\ TypedNeighbour(x, n.uid, dir, l)
                            /\ (Truthy(flt) => l = flt)}
    IN  /\ n.relationshipType # Undefined =>
               \E prev \in Range(Hop(h - 1)) : n.relationshipType \in typedFrom(prev.uid)
        /\ n.relationshipType = Undefined =>
               \E prev \in Range(Hop(h - 1)) : TextNeighbour(prev.uid, n.uid, dir)
        /\ typedFrom(Discoverer(h, n).uid) # {} =>
               n.relationshipType \in typedFrom(Discoverer(h, n).uid)

FixtureFile ==
    GraphFile(<<[f |-> "rel", p |-> "P", s |-> "A", d |-> "B"],
                [f |-> "ref", p |-> "-", s |-> "B", d |-> "C"]>>)

UidsAndLabels(list) ==
    [i \in 1..Len(list) |-> <<list[i].uid, list[i].relationshipType>>]

FixtureAnswers ==
    (file = FixtureFile
        /\ request.tool \in {"get_linked_nodes", "get_node_neighborhood"}
        /\ request.args.uid = <<"A">>
        /\ request.args.direction = "outgoing") =>
        /\ Answered("get_linked_nodes") =>
              UidsAndLabels(response.linkedNodes) = << <<(<<"B">>), Supports>> >>
        /\ (Answered("get_node_neighborhood") /\ request.args.depth = 2
               /\ request.args.nodeTypeFilter = Undefined
               /\ request.args.relationshipTypeFilter = Undefined) =>
              /\ UidsAndLabels(Hop(0)) = << <<(<<"A">>), Undefined>> >>
              /\ UidsAndLabels(Hop(1)) = << <<(<<"B">>), Supports>> >>
              /\ UidsAndLabels(Hop(2)) = << <<(<<"C">>), Undefined>> >>

\* C6: a node of the neighborhood reached through a typed relationship carries
\* its label, one reachable only through a text reference carries none, and
\* the documents with A -Supports-> B, B -text-> C answer as the example says
C6_LabelsFollowEdgeKind ==
    /\ pc = "replying" => FixtureAnswers
    /\ Answered("get_node_neighborhood") =>
          \A h \in 1..(Len(response.nodesByHop) - 1) :
              \A n \in Range(Hop(h)) : LabelledAsReached(h, n)

C6_Witness ==
    /\ file = FixtureFile
    /\ Answered("get_node_neighborhood")
    /\ request.args.uid = <<"A">> /\ request.args.depth = 2
    /\ request.args.direction = "outgoing"
    /\ request.args.nodeTypeFilter = Undefined
    /\ request.args.relationshipTypeFilter = Undefined
    /\ Len(Hop(2)) = 1 /\ Hop(2)[1].relationshipType = Undefined


(***************************************************************************)
(* Searches                                                                *)
(***************************************************************************)
SearchAnswered(search) ==
    pc = "replying" /\ request.tool = "search_nodes" /\ request.search = search
        /\ response.kind = "returned" /\ ~response.isError

Smaller(a, b) == IF a < b THEN a ELSE b

\* a filter argument is given when it is a non-empty string
Given(filter) == filter # Undefined /\ filter # <<>>

SatisfiesFilters(nodeType, creator, args) ==
    /\ Given(args.nodeType) => nodeType = args.nodeType
    /\ Given(args.creator) =>
          includes(toLowerCase(creator), toLowerCase(args.creator))

\* the score the BM25 search computes for a node entry of the store
SearchScore(node) ==
    computeBM25Score(bm25Index, MapGetOr(bm25Index.docs, node.uid, NoDocData),
                     tokenize(request.args.query))

\* positions in allNodes of the entries that pass the filters with a positive score
Candidates ==
    {i \in 1..Len(dataStore.allNodes) :
        /\ SatisfiesFilters(dataStore.allNodes[i].nodeType,
                            dataStore.allNodes[i].creator, request.args)
        /\ SearchScore(dataStore.allNodes[i]) > 0}

\* result r reports node entry n
Reports(r, n) ==
    /\ r.uid = n.uid /\ r.nodeType = n.nodeType /\ r.title = n.titleClean
    /\ r.creator = n.creator /\ r.created = n.created
    /\ r.snippet = createSnippet(n.content)

TokensOf(text) == Range(tokenize(text))

\* C4: a search whose query tokenizes to no terms returns an empty result list
\* without error, for every document, filter and limit
C4_NoTermsNoResults ==
    (pc = "replying" /\ request.tool = "search_nodes"
        /\ tokenize(request.args.query) = <<>>)
    => (response.kind = "returned" /\ ~response.isError /\ response.results = <<>>)

\* C7: the BM25 result list is in non-increasing order of score and is the
\* first `limit` entries of the filter-passing entries with positive score in
\* descending order of score: it has min(limit, number of such entries)
\* elements, each reports a different one of them, and no entry left out
\* scores higher than the last one listed
C7_RankedAndTruncated ==
    SearchAnswered("bm25") =>
        LET res == response.results
            nodes == dataStore.allNodes
        IN  /\ \A k \in 1..(Len(res) - 1) : res[k].score >= res[k + 1].score
            /\ Len(res) = Smaller(request.args.limit, Cardinality(Candidates))
            /\ \E f \in [1..Len(res) -> Candidates] :
                  /\ \A j, k \in 1..Len(res) : j # k => f[j] # f[k]
                  /\ \A k \in 1..Len(res) :
                        /\ Reports(res[k], nodes[f[k]])
                        /\ res[k].score = RoundedScore(SearchScore(nodes[f[k]]))
                  /\ \A k \in 1..(Len(res) - 1) :
                        SearchScore(nodes[f[k]]) >= SearchScore(nodes[f[k + 1]])
                  /\ \A i \in Candidates :
                        (\A k \in 1..Len(res) : f[k] # i) =>
                            /\ Len(res) = request.args.limit
                            /\ Len(res) > 0 =>
                                  SearchScore(nodes[i])
                                      <= SearchScore(nodes[f[Len(res)]])

\* two entries pass with different scores, the better one is second in the
\* store, and the limit admits only one
C7_Witness ==
    /\ SearchAnswered("bm25")
    /\ request.args.limit = 1
    /\ Candidates = {1, 2}
    /\ SearchScore(dataStore.allNodes[2]) > SearchScore(dataStore.allNodes[1])
    /\ Len(response.results) = 1
    /\ Reports(response.results[1], dataStore.allNodes[2])

\* C8: every document the BM25 search returns contains at least one query
\* term among its title or content tokens
C8_ReturnedContainsQueryTerm ==
    SearchAnswered("bm25") =>
        \A k \in 1..Len(response.results) :
            \E n \in Range(dataStore.allNodes) :
                /\ Reports(response.results[k], n)
                /\ TokensOf(request.args.query)
                       \cap (TokensOf(n.title) \cup TokensOf(n.content)) # {}

\* the number of entries a search has to choose from once the filters are applied
Eligible ==
    LET nodes == dataStore.allNodes
        queryWords == SelectSeq(splitWhitespace(toLowerCase(request.args.query)),
                                LAMBDA w : Len(w) > 0)
    IN  {i \in 1..Len(nodes) :
            /\ SatisfiesFilters(nodes[i].nodeType, nodes[i].creator, request.args)
            /\ IF request.search = "bm25"
               THEN SearchScore(nodes[i]) > 0
               ELSE matchesQuery(nodes[i], queryWords)}

\* C9: every result of a search satisfies the filters that are given (nodeType
\* equal to the category filter, lower-cased creator containing the lower-cased
\* creator filter), and filtered-out entries take none of the limit: the
\* list has min(limit, number of filter-passing matches) elements
C9_ResultsSatisfyFilters ==
    (SearchAnswered("bm25") \/ SearchAnswered("keyword")) =>
        /\ \A k \in 1..Len(response.results) :
              SatisfiesFilters(response.results[k].nodeType,
                               response.results[k].creator, request.args)
        /\ Len(response.results)
              = Smaller(request.args.limit, Cardinality(Eligible))

\* a creator filter is given, the first entry of the store matches the query
\* but not the filter, and the one place the limit leaves goes to the second
C9_Witness ==
    /\ SearchAnswered("bm25")
    /\ Given(request.args.creator)
    /\ request.args.limit = 1
    /\ Len(dataStore.allNodes) = 2
    /\ SearchScore(dataStore.allNodes[1]) > 0
    /\ ~SatisfiesFilters(dataStore.allNodes[1].nodeType,
                         dataStore.allNodes[1].creator, request.args)
    /\ Len(response.results) = 1
    /\ Reports(response.results[1], dataStore.allNodes[2])

TitleHasQueryTerm(node) ==
    TokensOf(request.args.query) \cap TokensOf(node.title) # {}

TokenLength(node) == Len(tokenize(node.content)) + Len(tokenize(node.title))

\* C10: of two entries with the same content and the same token length, one
\* with a query term in its title and the other with none, the BM25 search
\* scores the one with the title match strictly higher
C10_TitleMatchScoresHigher ==
    SearchAnswered("bm25") =>
        \A x, y \in Range(dataStore.allNodes) :
            (/\ x.content = y.content
             /\ TokenLength(x) = TokenLength(y)
             /\ TitleHasQueryTerm(x)
             /\ ~TitleHasQueryTerm(y))
            => SearchScore(x) > SearchScore(y)


\* words added to the query of the call
ProbeWords == {<<"z","z">>, <<"e","f">>, <<"c","d">>}

InCorpus(term) == MapHas(bm25Index.docFreq, term)

\* the answer of the BM25 search to the call's arguments with another query
AnswerTo(query) ==
    handleSearchNodesBM25(dataStore, bm25Index,
                          [request.args EXCEPT !.query = query]).results

\* C11: a query term that occurs in no document adds exactly zero to the score
\* of every document, and adding it to the query changes neither the documents
\* returned nor their order nor their scores
C11_AbsentTermChangesNothing ==
    SearchAnswered("bm25") =>
        \A w \in ProbeWords :
            ~InCorpus(w) =>
                /\ \A i \in 1..Len(bm25Index.docs) :
                      TermScore(bm25Index, bm25Index.docs[i].v, w) = 0
                /\ AnswerTo(request.args.query \o <<" ">> \o w) = response.results
                /\ AnswerTo(w \o <<" ">> \o request.args.query) = response.results

\* a query with a term of the corpus and a term of no document, answered with
\* two results
C11_Witness ==
    /\ SearchAnswered("bm25")
    /\ request.args.query = <<"c","d"," ","z","z">>
    /\ ~InCorpus(<<"z","z">>) /\ InCorpus(<<"c","d">>)
    /\ Len(response.results) = 2
    /\ AnswerTo(<<"c","d">>) = response.results


C13_SearchScoresAgainstLoadedDataset ==
    SearchAnswered("bm25") =>
        response = handleSearchNodesBM25(dataStore, buildBM25Index(dataStore),
                                         request.args)

\* the index holds every node of the store: the document count, an entry per
\* uid with the term counts of the last node of that uid, and a document
\* frequency for every term of every node
IndexComplete(index, store) ==
    /\ index # NullIndex
    /\ index.numDocs = Len(store.allNodes)
    /\ index.avgDocLength.den = Len(store.allNodes)
    /\ MapKeys(index.docs) = MapKeys(store.nodesByUid)
    /\ \A i \in 1..Len(store.allNodes) :
          LET tokens == TokensOf(store.allNodes[i].content)
                            \cup TokensOf(store.allNodes[i].title)
          IN  /\ \A t \in tokens : MapHas(index.docFreq, t)
              /\ \E d \in 1..Len(index.docs) :
                    /\ index.docs[d].k = store.allNodes[i].uid
                    /\ \A t \in 1..Len(index.docs[d].v.terms) :
                          index.docs[d].v.terms[t].v > 0

\* C14: however the calls of concurrent search callers interleave, the index is
\* built at most once for the loaded dataset, and a search that has answered
\* has read a completely built index: the cached index holds every node, and
\* the answer is the one computed from a completely built index
C14_IndexBuiltOnceAndComplete ==
    /\ builds <= 1
    /\ bm25Index # NullIndex => IndexComplete(bm25Index, dataStore)
    /\ \A c \in Callers :
          pc[c] = "replying" =>
              /\ builds = 1
              /\ IndexComplete(bm25Index, dataStore)
              /\ response[c] = handleSearchNodesBM25(dataStore,
                                                     buildBM25Index(dataStore),
                                                     request[c].args)

\* two callers have been answered, neither result sent yet, both with results,
\* after a single build
C14_Witness ==
    /\ \A c \in Callers : pc[c] = "replying" /\ Len(response[c].results) > 0
    /\ request[1].args.query # request[2].args.query
    /\ builds = 1
    /\ Len(dataStore.allNodes) = MaxDocs

Count(entries, Test(_)) == Cardinality({i \in 1..Len(entries) : Test(entries[i])})

\* the store holds everything the document has: each schema and definition
\* entry under its uid, each node entry in allNodes, under its uid and in its
\* creator's list, each relation instance in allRelations and in the lists of
\* its source and its destination
StoreComplete(store, entries) ==
    /\ store # NoStore
    /\ Len(store.allNodes) = Count(entries, isDiscourseNode)
    /\ Len(store.allRelations) = Count(entries, isRelationInstance)
    /\ SumLengths(MapValues(store.nodesByCreator)) = Len(store.allNodes)
    /\ SumLengths(MapValues(store.relationsBySource)) = Len(store.allRelations)
    /\ SumLengths(MapValues(store.relationsByDestination)) = Len(store.allRelations)
    /\ \A i \in 1..Len(entries) :
          LET entry == entries[i]
          IN  /\ isNodeSchema(entry) =>
                    MapHas(store.nodeSchemas, extractUid(entry.id))
              /\ isRelationDef(entry) =>
                    MapHas(store.relationDefs, extractUid(entry.id))
              /\ isDiscourseNode(entry) =>
                    /\ MapHas(store.nodesByUid, extractUid(entry.id))
                    /\ MapHas(store.nodesByCreator, entry.creator)
                    /\ arrayIncludes(store.allCreators, entry.creator)
              /\ isRelationInstance(entry) =>
                    /\ MapHas(store.relationsBySource, extractUid(entry.source))
                    /\ MapHas(store.relationsByDestination,
                              extractUid(entry.destination))

\* C15: a query handler never reads a partly built store: until main() has
\* loaded the document no store is assigned and no handler has run, and from
\* then on dataStore is the completely built store of the document
C15_QueriesSeeCompleteStore ==
    /\ pc = "main" => dataStore = NoStore /\ response = NoResponse
    /\ pc # "main" => StoreComplete(dataStore, file)

\* a handler has answered from a store with nodes, definitions and relations
C15_Witness ==
    /\ pc = "replying"
    /\ request.tool = "get_relationships"
    /\ response.count = MaxFeatures
    /\ Len(dataStore.allRelations) = MaxFeatures
    /\ Len(dataStore.allNodes) = 3
    /\ Len(dataStore.relationDefs) = 2

\* the entries of the document of one kind whose "@id" holds the uid
EntriesWithUid(entries, IsKind(_), uid) ==
    SelectSeq(entries, LAMBDA e : IsKind(e) /\ extractUid(e.id) = uid)

\* C16: when several definition entries share a uid, the definition the store
\* holds under that uid has the label, domain and range of the first of them
\* in input order
C16_FirstDefinitionWins ==
    pc # "main" =>
        \A i \in 1..Len(file) :
            isRelationDef(file[i]) =>
                LET uid == extractUid(file[i].id)
                    first == EntriesWithUid(file, isRelationDef, uid)[1]
                    kept == MapGetOr(dataStore.relationDefs, uid, NoNode)
                IN  /\ kept # NoNode
                    /\ kept.label = first.label
                    /\ kept.domainUid = extractUid(first.domain)
                    /\ kept.rangeUid = extractUid(first.range)
                    /\ Len(SelectSeq(MapKeys(dataStore.relationDefs),
                                     LAMBDA k : k = uid)) = 1

\* get_relation_types has answered on a document with two definition entries of
\* uid P, the one labelled "Informs" first, and an instance of P
C16_Witness ==
    /\ pc = "replying" /\ request.tool = "get_relation_types"
    /\ Len(EntriesWithUid(file, isRelationDef, <<"P">>)) = 2
    /\ EntriesWithUid(file, isRelationDef, <<"P">>)[1].label = Informs
    /\ response.count = 1
    /\ response.relationTypes[1].label = Informs
    /\ response.relationTypes[1].domain = <<"Y">>
    /\ response.relationTypes[1].instanceCount = 1

\* the relations of a list that come from the instance entry
FromInstance(relations, entry) ==
    SelectSeq(relations,
              LAMBDA r : /\ r.predicateUid = extractUid(entry.predicate)
                         /\ r.sourceUid = extractUid(entry.source)
                         /\ r.destinationUid = extractUid(entry.destination))

Defined(entries, IsKind(_), uid) == EntriesWithUid(entries, IsKind, uid) # <<>>

\* C17: entries that refer to something missing do not make the load fail: the
\* store is built whole; an instance whose predicate has no definition entry is
\* in allRelations, in the list of its source and in the list of its
\* destination, labelled "unknown"; a definition whose domain (range) has no
\* schema entry has the raw domain (range) uid as its domain (range) label
C17_AnomaliesAreNotFatal ==
    pc # "main" =>
        /\ StoreComplete(dataStore, file)
        /\ \A i \in 1..Len(file) :
              LET entry == file[i]
              IN  /\ (isRelationInstance(entry)
                        /\ ~Defined(file, isRelationDef, extractUid(entry.predicate)))
                      => LET all == FromInstance(dataStore.allRelations, entry)
                             out == FromInstance(
                                        MapGetOr(dataStore.relationsBySource,
                                                 extractUid(entry.source), <<>>), entry)
                             in == FromInstance(
                                       MapGetOr(dataStore.relationsByDestination,
                                                extractUid(entry.destination), <<>>),
                                       entry)
                         IN  /\ Len(all) = 1 /\ all[1].label = UnknownLabel
                             /\ out = all /\ in = all
                  /\ isRelationDef(entry)
                      => LET kept == MapGetOr(dataStore.relationDefs,
                                              extractUid(entry.id), NoNode)
                         IN  /\ ~Defined(file, isNodeSchema, kept.domainUid)
                                 => kept.domainLabel = kept.domainUid
                             /\ ~Defined(file, isNodeSchema, kept.rangeUid)
                                 => kept.rangeLabel = kept.rangeUid

\* get_relationships has answered on a document that holds an instance of the
\* undefined predicate U and a definition whose range schema is missing
C17_Witness ==
    /\ pc = "replying" /\ request.tool = "get_relationships"
    /\ request.args.sourceUid = <<"A">>
    /\ response.count = 1
    /\ response.relationships[1].predicateUid = <<"U">>
    /\ response.relationships[1].relationshipType = UnknownLabel
    /\ Len(dataStore.relationDefs) = 1
    /\ dataStore.relationDefs[1].v.rangeLabel = EvdSchema
    /\ dataStore.relationDefs[1].v.domainLabel = Claim

\* no two schema entries and no two definition entries of the document share a uid
NoDuplicateUid(entries) ==
    \A i, j \in 1..Len(entries) :
        (/\ i # j
         /\ \/ isNodeSchema(entries[i]) /\ isNodeSchema(entries[j])
            \/ isRelationDef(entries[i]) /\ isRelationDef(entries[j]))
        => extractUid(entries[i].id) # extractUid(entries[j].id)

\* the label of the schema entry of the uid, wherever it is in the document,
\* and the uid itself when there is none
SchemaLabelOr(entries, uid) ==
    IF Defined(entries, isNodeSchema, uid)
    THEN EntriesWithUid(entries, isNodeSchema, uid)[1].label ELSE uid

\* C19: for a document without a repeated schema or definition uid, labels are
\* resolved whatever the order of the entries: every loaded relation has the
\* label of the definition entry of its predicate, wherever that entry is, and
\* every loaded definition has the labels of the schema entries of its domain
\* and range, wherever they are
C19_LabelsDoNotDependOnOrder ==
    (pc # "main" /\ NoDuplicateUid(file)) =>
        /\ \A r \in 1..Len(dataStore.allRelations) :
              LET relation == dataStore.allRelations[r]
                  defs == EntriesWithUid(file, isRelationDef, relation.predicateUid)
              IN  relation.label = IF defs # <<>> THEN defs[1].label ELSE UnknownLabel
        /\ \A d \in 1..Len(dataStore.relationDefs) :
              LET relDef == dataStore.relationDefs[d].v
              IN  /\ relDef.domainLabel = SchemaLabelOr(file, relDef.domainUid)
                  /\ relDef.rangeLabel = SchemaLabelOr(file, relDef.rangeUid)
        /\ Len(dataStore.allRelations) = Count(file, isRelationInstance)
        /\ Len(dataStore.relationDefs) = Count(file, isRelationDef)

\* get_relation_types has answered on the document that holds an instance,
\* then the definition of its predicate, then the schema of the definition's
\* domain
C19_Witness ==
    /\ pc = "replying" /\ request.tool = "get_relation_types"
    /\ Len(file) = 3
    /\ isRelationInstance(file[1]) /\ isRelationDef(file[2]) /\ isNodeSchema(file[3])
    /\ extractUid(file[1].predicate) = extractUid(file[2].id)
    /\ extractUid(file[2].domain) = extractUid(file[3].id)
    /\ dataStore.allRelations[1].label = Supports
    /\ response.relationTypes[1].domain = file[3].label
    /\ response.relationTypes[1].instanceCount = 1

\* the uid is the uid of a node entry of the document
IsNodeUid(entries, uid) ==
    \E i \in 1..Len(entries) :
        isDiscourseNode(entries[i]) /\ extractUid(entries[i].id) = uid

\* the document without its dangling references: the relation instances with
\* an endpoint that is no node are left out, and so are the text
\* cross-references to a uid that is no node
WithoutDangling(entries) ==
    LET kept == SelectSeq(entries,
                    LAMBDA e : isRelationInstance(e) =>
                                   /\ IsNodeUid(entries, extractUid(e.source))
                                   /\ IsNodeUid(entries, extractUid(e.destination)))
    IN  [i \in 1..Len(kept) |->
            IF isDiscourseNode(kept[i]) /\ "textRefersToNode" \in DOMAIN kept[i]
            THEN [kept[i] EXCEPT !.textRefersToNode =
                     SelectSeq(@, LAMBDA ref : IsNodeUid(entries, extractRefUid(ref)))]
            ELSE kept[i]]

\* the relations get_relationships has to report for its arguments
Requested(store, args) ==
    SelectSeq(store.allRelations,
              LAMBDA r : /\ Given(args.sourceUid) => r.sourceUid = args.sourceUid
                         /\ Given(args.destinationUid)
                                => r.destinationUid = args.destinationUid
                         /\ Given(args.relationshipType)
                                => toLowerCase(r.label) = toLowerCase(args.relationshipType))

\* what get_relationships reports for an endpoint that is no loaded node
UnknownNode(uid) == [uid |-> uid, title |-> UnknownTitle, nodeType |-> Null]

\* C18: a relation instance or text cross-reference to a uid that is no loaded
\* node makes no query fail. get_linked_nodes and get_node_neighborhood answer
\* as they answer on the document without its dangling references (the absent
\* endpoint is not listed and nothing is reached through it), and
\* get_relationships reports every requested relation, an absent endpoint with
\* its uid, title "Unknown" and null node type
C18_DanglingReferencesAreSkipped ==
    pc = "replying" =>
        /\ response.kind = "returned"
        /\ request.tool = "get_linked_nodes" =>
              response = handleGetLinkedNodes(loadData(WithoutDangling(file)),
                                              request.args)
        /\ request.tool = "get_node_neighborhood" =>
              response = handleGetNodeNeighborhood(loadData(WithoutDangling(file)),
                                                   request.args)
        /\ request.tool = "get_relationships" =>
              LET requested == Requested(dataStore, request.args)
              IN  /\ ~response.isError
                  /\ response.count = Len(requested)
                  /\ \A i \in 1..Len(requested) :
                        LET reported == response.relationships[i]
                        IN  /\ reported.source.uid = requested[i].sourceUid
                            /\ reported.destination.uid = requested[i].destinationUid
                            /\ ~IsNodeUid(file, requested[i].sourceUid) =>
                                  reported.source = UnknownNode(requested[i].sourceUid)
                            /\ ~IsNodeUid(file, requested[i].destinationUid) =>
                                  reported.destination =
                                      UnknownNode(requested[i].destinationUid)

\* get_relationships has reported a relation from A to the absent Z on a
\* document that also holds a text cross-reference from A to Z
C18_Witness ==
    /\ pc = "replying" /\ request.tool = "get_relationships"
    /\ response.count = 1
    /\ response.relationships[1].source.uid = <<"A">>
    /\ response.relationships[1].destination = UnknownNode(<<"Z">>)
    /\ WithoutDangling(file) # file
    /\ Len(WithoutDangling(file)) = Len(file) - 1
    /\ arrayIncludes(dataStore.nodesByUid[1].v.linkedNodeUids, <<"Z">>)

\* the typed relationships, in load order, that make the neighbour a neighbour
\* of uid in the direction
Connecting(store, uid, neighbour, direction) ==
    SelectSeq(store.allRelations,
              LAMBDA r : IF direction = "outgoing"
                         THEN r.sourceUid = uid /\ r.destinationUid = neighbour
                         ELSE r.destinationUid = uid /\ r.sourceUid = neighbour)

\* C20: in a get_linked_nodes answer each neighbour uid is listed once per
\* direction, and its entry carries the label of the first typed relationship
\* in load order that connects it to the queried node in that direction, also
\* when a text cross-reference connects them as well; only an entry with no
\* typed relationship is without a label
C20_FirstOccurrenceAnnotates ==
    Answered("get_linked_nodes") =>
        \A i \in 1..Len(response.linkedNodes) :
            LET listed == response.linkedNodes[i]
                typed == Connecting(dataStore, request.args.uid, listed.uid,
                                    listed.direction)
            IN  /\ \A j \in 1..Len(response.linkedNodes) :
                      (j # i /\ response.linkedNodes[j].uid = listed.uid)
                          => response.linkedNodes[j].direction # listed.direction
                /\ listed.relationshipType =
                      IF typed # <<>> THEN typed[1].label ELSE Undefined

\* A is asked for its outgoing neighbours on a document where an "Informs" and
\* then a "Supports" relationship lead from A to B: B is listed once, with
\* "Informs"
C20_Witness ==
    /\ Answered("get_linked_nodes")
    /\ request.args.uid = <<"A">> /\ request.args.direction = "outgoing"
    /\ Len(Connecting(dataStore, <<"A">>, <<"B">>, "outgoing")) = 2
    /\ Connecting(dataStore, <<"A">>, <<"B">>, "outgoing")[1].label = Informs
    /\ Connecting(dataStore, <<"A">>, <<"B">>, "outgoing")[2].label = Supports
    /\ Len(response.linkedNodes) = 1
    /\ response.linkedNodes[1].relationshipType = Informs

(***************************************************************************)
(* The graph a neighborhood query walks                                    *)
(***************************************************************************)
LoadedUids == Range(MapKeys(dataStore.nodesByUid))

\* the loaded node x lists y among its text cross-references
ReferenceEdge(x, y) ==
    /\ MapHas(dataStore.nodesByUid, x)
    /\ arrayIncludes(MapGetOr(dataStore.nodesByUid, x, NoNode).linkedNodeUids, y)

\* y is one edge from x in the direction asked and under the label filter
GraphEdge(x, y, args) ==
    IF Truthy(args.relationshipTypeFilter)
    THEN TypedNeighbour(x, y, args.direction, args.relationshipTypeFilter)
    ELSE \/ \E l \in LabelsInStore : TypedNeighbour(x, y, args.direction, l)
         \/ args.direction \in {"outgoing", "both"} /\ ReferenceEdge(x, y)
         \/ args.direction \in {"incoming", "both"} /\ x # y /\ ReferenceEdge(y, x)

\* the loaded node passes the category filter
InCategory(uid, args) ==
    Truthy(args.nodeTypeFilter) =>
        MapGetOr(dataStore.nodesByUid, uid, NoNode).nodeType = args.nodeTypeFilter

\* the loaded uids within h edges of the start, through nodes of the category
RECURSIVE Within(_, _)
Within(h, args) ==
    IF h = 0 THEN {args.uid}
    ELSE LET nearer == Within(h - 1, args)
         IN  nearer \cup {y \in LoadedUids :
                             /\ InCategory(y, args)
                             /\ \E x \in nearer : GraphEdge(x, y, args)}

\* the loaded uids whose least number of edges from the start is h
AtDistance(h, args) ==
    IF h = 0 THEN {args.uid} ELSE Within(h, args) \ Within(h - 1, args)

UidsOf(list) == {list[i].uid : i \in 1..Len(list)}

\* C21: the nodes listed at hop h of a neighborhood are exactly the loaded
\* nodes at least distance h from the start, in the graph of the direction and
\* label filter without the nodes that fail the category filter; no node is
\* listed twice
C21_HopIsShortestDistance ==
    Answered("get_node_neighborhood") =>
        /\ \A h \in 0..request.args.depth :
              /\ UidsOf(Hop(h)) = AtDistance(h, request.args)
              /\ Cardinality(UidsOf(Hop(h))) = Len(Hop(h))
        /\ \A h, k \in 0..request.args.depth :
              h # k => UidsOf(Hop(h)) \cap UidsOf(Hop(k)) = {}

\* the neighbours of a list other than uid, each with its label
LabelledOthers(list, uid) ==
    {<<list[i].uid, list[i].relationshipType>> :
        i \in {j \in 1..Len(list) : list[j].uid # uid}}

\* C22: without filters and for one direction, hop 1 of the neighborhood of a
\* node holds the neighbours get_linked_nodes lists for it, each with the same
\* relationship label or the same absence of one (the node itself aside)
C22_HopOneAgreesWithLinkedNodes ==
    (/\ Answered("get_node_neighborhood")
     /\ request.args.direction \in {"outgoing", "incoming"}
     /\ ~Truthy(request.args.nodeTypeFilter)
     /\ ~Truthy(request.args.relationshipTypeFilter)) =>
        LabelledOthers(Hop(1), request.args.uid) =
            LabelledOthers(LinkedFor(request.args.direction), request.args.uid)

\* the document with the text cross-references of its node entries taken out
WithoutReferences(entries) ==
    [i \in 1..Len(entries) |->
        IF isDiscourseNode(entries[i]) /\ "textRefersToNode" \in DOMAIN entries[i]
        THEN [entries[i] EXCEPT !.textRefersToNode = <<>>]
        ELSE entries[i]]

\* C23: under a relationship-label filter the neighborhood follows no text
\* cross-reference: every node listed at a hop h >= 1 carries the label of the
\* filter and is joined to a node of hop h - 1 by a relation instance of that
\* label, and the answer is the answer on the document without its text
\* cross-references
C23_FilterExcludesReferences ==
    (Answered("get_node_neighborhood") /\ Truthy(request.args.relationshipTypeFilter)) =>
        /\ \A h \in 1..request.args.depth :
              \A n \in Range(Hop(h)) :
                  /\ n.relationshipType = request.args.relationshipTypeFilter
                  /\ \E prev \in Range(Hop(h - 1)) :
                        TypedNeighbour(prev.uid, n.uid, request.args.direction,
                                       request.args.relationshipTypeFilter)
        /\ response = handleGetNodeNeighborhood(loadData(WithoutReferences(file)),
                                                request.args)

\* a filtered neighborhood has listed a node at hop 1 and leaves out a node
\* that the same query without the filter reaches over a text cross-reference
C23_Witness ==
    /\ Answered("get_node_neighborhood")
    /\ Truthy(request.args.relationshipTypeFilter)
    /\ Hop(1) # <<>>
    /\ WithoutReferences(file) # file
    /\ handleGetNodeNeighborhood(
           dataStore, [request.args EXCEPT !.relationshipTypeFilter = Undefined]
       ).totalNodes > response.totalNodes

\* the document without the node entries whose uid, other than the start, is
\* the uid of a loaded node that fails the category filter
WithoutOtherCategories(entries, args) ==
    SelectSeq(entries,
              LAMBDA e : isDiscourseNode(e) =>
                             \/ extractUid(e.id) = args.uid
                             \/ InCategory(extractUid(e.id), args))

\* C24: under a category filter every node listed at a hop h >= 1 has the
\* node type of the filter and is a neighbour of a node listed at hop h - 1,
\* and the nodes that fail the filter act as if absent: the answer is the
\* answer on the document without them
C24_CategoryFilterPrunes ==
    (Answered("get_node_neighborhood") /\ Truthy(request.args.nodeTypeFilter)) =>
        /\ \A h \in 1..request.args.depth :
              \A n \in Range(Hop(h)) :
                  /\ n.nodeType = request.args.nodeTypeFilter
                  /\ \E prev \in Range(Hop(h - 1)) :
                        FilteredNeighbour(prev.uid, n.uid, request.args.direction,
                                          request.args.relationshipTypeFilter)
        /\ response =
              handleGetNodeNeighborhood(
                  loadData(WithoutOtherCategories(file, request.args)), request.args)

\* a neighborhood filtered by category lists a node at hop 1 and leaves out a
\* node the same query without the filter lists
C24_Witness ==
    /\ Answered("get_node_neighborhood")
    /\ Truthy(request.args.nodeTypeFilter)
    /\ Hop(1) # <<>>
    /\ WithoutOtherCategories(file, request.args) # file
    /\ handleGetNodeNeighborhood(
           dataStore, [request.args EXCEPT !.nodeTypeFilter = Undefined]
       ).totalNodes > response.totalNodes

\* the uids of the queue entries
Queued(state) == [i \in 1..Len(state.queue) |-> state.queue[i][1]]

\* an iteration appends to the queue only uids that were never queued before
\* (visited holds every uid that has been queued), each once; the stepwise
\* run ends with the answer of the handler
EnqueuesOnce ==
    /\ (pc = "traversing" /\ pc' = "traversing") =>
          LET added == SubSeq(Queued(bfs'), Len(bfs.queue), Len(bfs'.queue))
          IN  /\ SubSeq(Queued(bfs'), 1, Len(bfs.queue) - 1) = Tail(Queued(bfs))
              /\ \A i \in 1..Len(added) :
                    /\ ~MapHas(bfs.visited, added[i])
                    /\ MapHas(bfs'.visited, added[i])
                    /\ \A j \in 1..Len(added) : i # j => added[i] # added[j]
              /\ Len(bfs'.visited) = Len(bfs.visited) + Len(added)
    /\ (pc = "traversing" /\ pc' = "replying") =>
          response' = handleGetNodeNeighborhood(dataStore, request.args)

\* C25: the traversal of get_node_neighborhood terminates, cycles,
\* self-references and mutual references included: no uid is put on the queue
\* twice, and a traversal that has begun reaches the return of the handler
\* with an empty queue
C25_TraversalTerminates ==
    /\ [][EnqueuesOnce]_vars
    /\ (pc = "traversing") ~> (pc = "replying" /\ bfs = NoBfs)

\* the loop is running on a document where A and B refer to each other: B was
\* reached from A, is being expanded and A is visited
C25_Witness ==
    /\ pc = "traversing"
    /\ request.args.uid = <<"A">> /\ request.args.depth = MaxDepth
    /\ Queued(bfs) = << <<"B">> >>
    /\ GraphEdge(<<"A">>, <<"B">>, request.args)
    /\ GraphEdge(<<"B">>, <<"A">>, request.args)
    /\ MapHas(bfs.visited, <<"A">>)

\* the distinct terms of the query, in order of first occurrence
RECURSIVE DistinctTerms(_)
DistinctTerms(queryTerms) ==
    IF queryTerms = <<>> THEN <<>>
    ELSE LET front == DistinctTerms(SubSeq(queryTerms, 1, Len(queryTerms) - 1))
             last == queryTerms[Len(queryTerms)]
         IN  IF last \in Range(front) THEN front ELSE Append(front, last)

\* C26: a document's score is the sum of the contributions of the distinct
\* terms of the query, so repeating a term of the query changes neither a
\* document's score nor the results nor their order
C26_RepeatedTermChangesNothing ==
    SearchAnswered("bm25") =>
        LET queryTerms == tokenize(request.args.query)
        IN  /\ \A i \in 1..Len(bm25Index.docs) :
                  computeBM25Score(bm25Index, bm25Index.docs[i].v, queryTerms)
                    = computeBM25Score(bm25Index, bm25Index.docs[i].v,
                                       DistinctTerms(queryTerms))
            /\ AnswerTo(request.args.query \o <<" ">> \o request.args.query)
                 = response.results

\* the field a keyword search is ordered by: created and modified as they are,
\* the cleaned title in lower case
SortKey(node, orderBy) ==
    IF orderBy = "created" THEN node.created
    ELSE IF orderBy = "modified" THEN node.modified
    ELSE toLowerCase(node.titleClean)

\* the direction asked for, descending when the call gives none
RequestedDirection ==
    IF request.input.sortDirection = "undefined" THEN "desc"
    ELSE request.input.sortDirection

\* entry a comes strictly before entry b in the order asked for
Before(a, b) ==
    LET comparison == localeCompare(SortKey(a, request.input.orderBy),
                                    SortKey(b, request.input.orderBy))
    IN  IF RequestedDirection = "asc" THEN comparison < 0 ELSE comparison > 0

\* C27: with orderBy given, the keyword search returns the first `limit` of all
\* matching, filter-passing entries in the order of the chosen field and the
\* direction asked for (descending when none is given): the results are in
\* that order and no entry left out comes before a returned one
C27_LimitAppliesAfterSort ==
    (SearchAnswered("keyword") /\ request.input.orderBy # "undefined") =>
        LET nodes == dataStore.allNodes
            results == response.results
        IN  /\ Len(results) = Smaller(request.input.limit, Cardinality(Eligible))
            /\ \E pick \in [1..Len(results) -> Eligible] :
                  /\ \A j, k \in 1..Len(results) : j # k => pick[j] # pick[k]
                  /\ \A k \in 1..Len(results) :
                        results[k] = SearchResult(nodes[pick[k]])
                  /\ \A j, k \in 1..Len(results) :
                        j < k => ~Before(nodes[pick[k]], nodes[pick[j]])
                  /\ \A i \in Eligible \ Range(pick) :
                        \A k \in 1..Len(results) : ~Before(nodes[i], nodes[pick[k]])

\* two entries match, the call orders by created without a direction and asks
\* for one result: the later entry of the store, created later, is returned
C27_Witness ==
    /\ SearchAnswered("keyword")
    /\ request.input.orderBy = "created"
    /\ request.input.sortDirection = "undefined"
    /\ request.input.limit = 1
    /\ Eligible = {1, 2}
    /\ localeCompare(dataStore.allNodes[1].created, dataStore.allNodes[2].created) < 0
    /\ response.results = <<SearchResult(dataStore.allNodes[2])>>

\* C28: get_node_neighborhood accepts a depth only if it is an integer in 1..4,
\* and for every depth the schema accepts the traversal ends without a runtime
\* failure and returns depth + 1 hop lists
C28_AcceptedDepthsAreSafe ==
    (pc = "replying" /\ request.tool = "get_node_neighborhood"
        /\ response.kind # "rejected") =>
        /\ request.args.depthHalves = 0
        /\ request.args.depth \in SchemaMinDepth..SchemaMaxDepth
        /\ response.kind = "returned"
        /\ ~response.isError =>
              2 * Len(response.nodesByHop) = DepthInHalves(request.args) + 2

\* the labels (Undefined for none) under which get_linked_nodes of uid lists
\* other in the direction given
LabelsLinking(uid, direction, other) ==
    LET linkedNodes == handleGetLinkedNodes(dataStore, [uid |-> uid,
                                                        direction |-> direction]).linkedNodes
    IN  {linkedNodes[i].relationshipType :
            i \in {j \in 1..Len(linkedNodes) : linkedNodes[j].uid = other}}

RECURSIVE SumInstanceCounts(_)
SumInstanceCounts(relationTypes) ==
    IF relationTypes = <<>> THEN 0
    ELSE Head(relationTypes).instanceCount + SumInstanceCounts(Tail(relationTypes))

\* C30: get_relation_types counts every relation instance under at most one
\* listed type: the instanceCount values of the listed types add up to at most
\* totalRelationships, also when two definitions of different uids share a label
C30_InstancesCountedOnce ==
    Answered("get_relation_types") =>
        SumInstanceCounts(response.relationTypes) <= response.totalRelationships

====
